---------------------------- MODULE Spec2Model ----------------------------
(***************************************************************************)
(* Customer churn dashboard: the ChurnPredictor class of                   *)
(* app_vl_analytics.py (load_models, engineer_features,                    *)
(* prepare_features_for_model, predict), the prediction page that calls it *)
(* and main, which runs once per user interaction.                         *)
(*                                                                         *)
(* Numbers are exact rationals n/d (Python floats without the rounding);   *)
(* np.exp(-tenure/12) is a table rounded to six decimals.  A DataFrame     *)
(* with one row is the sequence of its <<column, cell>> pairs, in column   *)
(* order; a customer_data dict is the same, in key order.                  *)
(***************************************************************************)
EXTENDS Integers, Sequences, FiniteSets, TLC

VARIABLES
    disk,            \* the artifact files under models/ (the environment)
    predictor,       \* the ChurnPredictor object: model, scaler, label_encoders
    customer_data,   \* the caller's record (a dict), as passed to the methods
    engineered,      \* what the last engineer_features call returned or raised
    features,        \* what the last prepare_features_for_model call returned
    model_input,     \* the array the last predict handed to predict_proba
    result,          \* what the last predict call returned
    page,            \* what the prediction page showed last
    first_engineered, \* what engineer_features returned for customer_data the first time
    history,         \* the engineer_features calls so far: "none", then "first" (one on
                     \* customer_data), "other" (then one on another record), "again"
                     \* (then one on customer_data again)
    batch_df,        \* the row the feature engineering script computed last
    loads,           \* the number of load_models executions in the process so far
    training         \* the modeling script's run and the predict_churn calls after it

vars == <<disk, predictor, customer_data, engineered, features, model_input,
          result, page, first_engineered, history, batch_df, loads, training>>

None == "None"

---------------------------------------------------------------------------
(* Cells: a string or a rational number.                                   *)

Abs(x) == IF x < 0 THEN -x ELSE x

RECURSIVE GCD(_, _)
GCD(a, b) == IF b = 0 THEN a ELSE GCD(b, a % b)

LCM(a, b) == (a \div GCD(a, b)) * b

Str(x) == [k |-> "str", s |-> x, n |-> 0, d |-> 1]

\* n/d in lowest terms, d > 0
Num(a, b) ==
    LET g == GCD(Abs(a), b)
    IN  [k |-> "num", s |-> "", n |-> a \div g, d |-> b \div g]

IntCell(a) == Num(a, 1)

\* a decimal literal with two places, given in hundredths
Dec(c) == Num(c, 100)

\* (series == value).astype(int) and friends
Bool(b) == IntCell(IF b THEN 1 ELSE 0)

IsStr(x) == x.k = "str"

\* series == 'literal': a number never equals a string
EqStr(x, lit) == IsStr(x) /\ x.s = lit

RAdd(x, y) ==
    LET l == LCM(x.d, y.d)
    IN  Num(x.n * (l \div x.d) + y.n * (l \div y.d), l)

RNeg(x) == Num(-x.n, x.d)

RSub(x, y) == RAdd(x, RNeg(y))

RMul(x, y) ==
    LET g1 == GCD(Abs(x.n), y.d)
        g2 == GCD(Abs(y.n), x.d)
    IN  Num((x.n \div g1) * (y.n \div g2), (x.d \div g2) * (y.d \div g1))

\* y is not zero
RDiv(x, y) ==
    RMul(x, IF y.n > 0 THEN Num(y.d, y.n) ELSE Num(-y.d, -y.n))

RLt(x, y) == x.n * y.d < y.n * x.d

RLe(x, y) == x.n * y.d <= y.n * x.d

RMin(x, y) == IF RLt(y, x) THEN y ELSE x

RMax(x, y) == IF RLt(x, y) THEN y ELSE x

\* np.clip(x, lo, hi)
Clip(x, lo, hi) == RMin(RMax(x, lo), hi)

---------------------------------------------------------------------------
(* One-row DataFrames and dicts.                                           *)

Columns(df) == [i \in 1..Len(df) |-> df[i][1]]

Has(df, c) == \E i \in 1..Len(df) : df[i][1] = c

\* df[c]; c is a column of df
Get(df, c) == df[CHOOSE i \in 1..Len(df) : df[i][1] = c][2]

\* df[c] = v: assigns in place, a new column goes last
SetCol(df, c, v) ==
    IF Has(df, c)
    THEN [i \in 1..Len(df) |-> IF df[i][1] = c THEN <<c, v>> ELSE df[i]]
    ELSE Append(df, <<c, v>>)

\* a dict without key c
DelKey(cd, c) == SelectSeq(cd, LAMBDA p : p[1] # c)

\* the last of the columns cs that df lacks
FirstMissing_Last(df, cs) ==
    LET missing == {i \in 1..Len(cs) : ~Has(df, cs[i])}
    IN  IF missing = {} THEN ""
        ELSE cs[CHOOSE i \in missing : \A j \in missing : j <= i]

\* the first of the columns cs (in access order) that df lacks, "" when none
RECURSIVE FirstMissing(_, _)
FirstMissing(df, cs) ==
    IF cs = <<>> THEN ""
    ELSE IF ~Has(df, Head(cs)) THEN Head(cs)
    ELSE FirstMissing(df, Tail(cs))

---------------------------------------------------------------------------
(* Series.map(mapping) and fillna.                                         *)

NaN == [k |-> "nan", s |-> "", n |-> 0, d |-> 1]

IsNaN(x) == x.k = "nan"

\* series.map(m): a value that is no key of m maps to NaN
MapCell(m, x) == IF IsStr(x) /\ Has(m, x.s) THEN Get(m, x.s) ELSE NaN

FillNa(x, v) == IF IsNaN(x) THEN v ELSE x

---------------------------------------------------------------------------
(* ChurnPredictor.engineer_features, a column at a time.                   *)

\* the ordinal contract codes in place of the stability scale
contract_stability_map_ordinal ==
    << <<"Month-to-month", IntCell(0)>>, <<"One year", IntCell(1)>>,
       <<"Two year", IntCell(2)>> >>

contract_stability_map ==
    << <<"Month-to-month", IntCell(0)>>, <<"One year", Num(1, 2)>>,
       <<"Two year", IntCell(1)>> >>

payment_stability_map ==
    << <<"Electronic check", IntCell(0)>>,
       <<"Mailed check", Dec(33)>>,
       <<"Bank transfer (automatic)", Dec(67)>>,
       <<"Credit card (automatic)", IntCell(1)>> >>

IsMonthToMonth(df) == Bool(EqStr(Get(df, "Contract"), "Month-to-month"))

ContractStability(df) ==
    FillNa(MapCell(contract_stability_map, Get(df, "Contract")), IntCell(0))

IsElectronicCheck(df) == Bool(EqStr(Get(df, "PaymentMethod"), "Electronic check"))

\* the mapping without .fillna(0), as the batch script writes it
PaymentStability_NoFillNa(df) ==
    MapCell(payment_stability_map, Get(df, "PaymentMethod"))

PaymentStability(df) ==
    FillNa(MapCell(payment_stability_map, Get(df, "PaymentMethod")), IntCell(0))

\* the score with the payment term weighting stability instead of instability
FinancialRiskScore_StabilityTerm(df) ==
    RAdd(RAdd(RMul(Get(df, "IsMonthToMonth"), Num(427, 1000)),
              RMul(Get(df, "IsElectronicCheck"), Num(453, 1000))),
         RMul(Get(df, "PaymentStability"), Num(12, 100)))

FinancialRiskScore(df) ==
    RAdd(RAdd(RMul(Get(df, "IsMonthToMonth"), Num(427, 1000)),
              RMul(Get(df, "IsElectronicCheck"), Num(453, 1000))),
         RMul(RSub(IntCell(1), Get(df, "PaymentStability")), Num(12, 100)))

\* 1. Basic Risk Features
BasicRiskFeatures(df) ==
    LET a == SetCol(df, "IsMonthToMonth", IsMonthToMonth(df))
        b == SetCol(a, "ContractStability", ContractStability(a))
        c == SetCol(b, "IsElectronicCheck", IsElectronicCheck(b))
        e == SetCol(c, "PaymentStability", PaymentStability(c))
    IN  SetCol(e, "FinancialRiskScore", FinancialRiskScore(e))

\* round(10^6 * exp(-t/12)) for t = 0..101
ExpNegTwelfths ==
    << 1000000, 920044, 846482, 778801, 716531, 659241, 606531, 558035,
       513417, 472367, 434598, 399850, 367879, 338465, 311403, 286505,
       263597, 242521, 223130, 205290, 188876, 173774, 159880, 147096,
       135335, 124514, 114559, 105399, 96972, 89219, 82085, 75522,
       69483, 63928, 58816, 54114, 49787, 45806, 42144, 38774,
       35674, 32822, 30197, 27783, 25562, 23518, 21637, 19907,
       18316, 16851, 15504, 14264, 13124, 12074, 11109, 10221,
       9404, 8652, 7960, 7324, 6738, 6199, 5704, 5248,
       4828, 4442, 4087, 3760, 3459, 3183, 2928, 2694,
       2479, 2281, 2098, 1930, 1776, 1634, 1503, 1383,
       1273, 1171, 1077, 991, 912, 839, 772, 710,
       653, 601, 553, 509, 468, 431, 396, 365,
       335, 309, 284, 261, 240, 221 >>

\* a decay that halves with every full year of tenure
TenureRisk_HalfLife(df) == Num(1, 2 ^ (Get(df, "tenure").n \div 12))

\* a linear decay that reaches 0 after a year
TenureRisk_Linear(df) ==
    RMax(IntCell(0), RSub(IntCell(1), RDiv(Get(df, "tenure"), IntCell(12))))

\* np.exp(-tenure / 12), tenure a whole number of months in 0..101
TenureRisk(df) == Num(ExpNegTwelfths[Get(df, "tenure").n + 1], 1000000)

IsNewCustomer(df) == Bool(RLe(Get(df, "tenure"), IntCell(12)))

IsVeryNewCustomer(df) == Bool(RLe(Get(df, "tenure"), IntCell(3)))

TenureSegment(df) ==
    LET tenure_val == Get(df, "tenure")
    IN  IF RLe(tenure_val, IntCell(3)) THEN IntCell(0)
        ELSE IF RLe(tenure_val, IntCell(12)) THEN IntCell(1)
        ELSE IF RLe(tenure_val, IntCell(24)) THEN IntCell(2)
        ELSE IF RLe(tenure_val, IntCell(48)) THEN IntCell(3)
        ELSE IntCell(4)

LifecycleValue(df) == RMul(Get(df, "tenure"), Get(df, "MonthlyCharges"))

RevenueAcceleration(df) ==
    RSub(RDiv(Get(df, "TotalCharges"), RAdd(Get(df, "tenure"), IntCell(1))),
         Get(df, "MonthlyCharges"))

\* 2. Tenure Features
TenureFeatures(df) ==
    LET a == SetCol(df, "TenureRisk", TenureRisk(df))
        b == SetCol(a, "IsNewCustomer", IsNewCustomer(a))
        c == SetCol(b, "IsVeryNewCustomer", IsVeryNewCustomer(b))
        e == SetCol(c, "TenureSegment", TenureSegment(c))
        f == SetCol(e, "LifecycleValue", LifecycleValue(e))
    IN  SetCol(f, "RevenueAcceleration", RevenueAcceleration(f))

\* the list without DeviceProtection
protection_services_three == <<"OnlineSecurity", "OnlineBackup", "TechSupport">>

protection_services ==
    <<"OnlineSecurity", "OnlineBackup", "DeviceProtection", "TechSupport">>

\* (df[service] == 'Yes').astype(int), 0 for a column df lacks ("if service in df.columns")
YesFlag(df, service) ==
    IF Has(df, service) /\ EqStr(Get(df, service), "Yes") THEN 1 ELSE 0

RECURSIVE CountYes(_, _)
CountYes(df, services) ==
    IF services = <<>> THEN 0
    ELSE YesFlag(df, Head(services)) + CountYes(df, Tail(services))

ProtectionScore(df) == IntCell(0 + CountYes(df, protection_services))

FullyProtected(df) == Bool(Get(df, "ProtectionScore") = IntCell(4))

NoProtection(df) == Bool(Get(df, "ProtectionScore") = IntCell(0))

\* 1 - ProtectionScore / 4
Unprotected(df) == RSub(IntCell(1), RDiv(Get(df, "ProtectionScore"), IntCell(4)))

ServiceVulnerability(df) ==
    RMul(Bool(~EqStr(Get(df, "InternetService"), "No")), Unprotected(df))

\* 3. Service Features
ServiceFeatures(df) ==
    LET a == SetCol(df, "HasTechSupport", Bool(EqStr(Get(df, "TechSupport"), "Yes")))
        b == SetCol(a, "HasOnlineSecurity", Bool(EqStr(Get(a, "OnlineSecurity"), "Yes")))
        c == SetCol(b, "HasBackup", Bool(EqStr(Get(b, "OnlineBackup"), "Yes")))
        e == SetCol(c, "ProtectionScore", ProtectionScore(c))
        f == SetCol(e, "FullyProtected", FullyProtected(e))
        g == SetCol(f, "NoProtection", NoProtection(f))
    IN  SetCol(g, "ServiceVulnerability", ServiceVulnerability(g))

service_cols ==
    <<"PhoneService", "InternetService", "OnlineSecurity", "OnlineBackup",
      "DeviceProtection", "TechSupport", "StreamingTV", "StreamingMovies">>

\* every service counted when its value is 'Yes'
Subscribed_YesOnly(df, service) ==
    IF Has(df, service) /\ EqStr(Get(df, service), "Yes") THEN 1 ELSE 0

\* one service's term of ServiceCount
Subscribed(df, service) ==
    IF ~Has(df, service) THEN 0
    ELSE IF service = "InternetService"
         THEN (IF ~EqStr(Get(df, service), "No") THEN 1 ELSE 0)
         ELSE (IF EqStr(Get(df, service), "Yes") THEN 1 ELSE 0)

RECURSIVE CountSubscribed(_, _)
CountSubscribed(df, services) ==
    IF services = <<>> THEN 0
    ELSE Subscribed(df, Head(services)) + CountSubscribed(df, Tail(services))

ServiceCount(df) == IntCell(0 + CountSubscribed(df, service_cols))

RevenuePerService(df) ==
    RDiv(Get(df, "MonthlyCharges"), RAdd(Get(df, "ServiceCount"), IntCell(1)))

\* 4. Service Count
ServiceCountFeatures(df) ==
    LET a == SetCol(df, "ServiceCount", ServiceCount(df))
    IN  SetCol(a, "RevenuePerService", RevenuePerService(a))

avg_monthly_charges == Dec(6476)

PriceDeviation(df) == RSub(Get(df, "MonthlyCharges"), avg_monthly_charges)

IsPriceSensitive(df) ==
    Bool(RLt(Get(df, "MonthlyCharges"), avg_monthly_charges)
         /\ RLt(Get(df, "ServiceCount"), IntCell(4)))

EstimatedMargin(df) ==
    RSub(RMul(Get(df, "MonthlyCharges"), Num(3, 10)),
         RMul(Get(df, "ServiceCount"), IntCell(5)))

CumulativeProfit(df) == RMul(Get(df, "EstimatedMargin"), Get(df, "tenure"))

\* 5. Price Features
PriceFeatures(df) ==
    LET a == SetCol(df, "PriceDeviation", PriceDeviation(df))
        b == SetCol(a, "IsPriceSensitive", IsPriceSensitive(a))
        c == SetCol(b, "EstimatedMargin", EstimatedMargin(b))
    IN  SetCol(c, "CumulativeProfit", CumulativeProfit(c))

\* the payment method strings that contain 'automatic'
automatic_methods ==
    {"Bank transfer (automatic)", "Credit card (automatic)", "Direct debit (automatic)"}

\* the test of the feature engineering script: isin the two methods of the data
ContainsAutomatic_IsIn(x) ==
    IsStr(x) /\ x.s \in {"Bank transfer (automatic)", "Credit card (automatic)"}

\* series.str.contains('automatic', na=False)
ContainsAutomatic(x) == IsStr(x) /\ x.s \in automatic_methods

DigitalAdoption(df) ==
    LET z == IntCell(0)
        a == IF Has(df, "PaperlessBilling")
             THEN RAdd(z, RDiv(Bool(EqStr(Get(df, "PaperlessBilling"), "Yes")), IntCell(3)))
             ELSE z
        b == IF Has(df, "PaymentMethod")
             THEN RAdd(a, RDiv(Bool(ContainsAutomatic(Get(df, "PaymentMethod"))), IntCell(3)))
             ELSE a
    IN  IF Has(df, "OnlineBackup")
        THEN RAdd(b, RDiv(Bool(EqStr(Get(df, "OnlineBackup"), "Yes")), IntCell(3)))
        ELSE b

IsStreamingUser(df) ==
    IF Has(df, "StreamingTV") /\ Has(df, "StreamingMovies")
    THEN Bool(EqStr(Get(df, "StreamingTV"), "Yes") \/ EqStr(Get(df, "StreamingMovies"), "Yes"))
    ELSE IntCell(0)

IsPureStreaming(df) ==
    Bool(Get(df, "IsStreamingUser") = IntCell(1)
         /\ EqStr(Get(df, "InternetService"), "Fiber optic"))

\* 6. Digital Features
DigitalFeatures(df) ==
    LET a == SetCol(df, "DigitalAdoption", DigitalAdoption(df))
        b == SetCol(a, "IsStreamingUser", IsStreamingUser(a))
    IN  SetCol(b, "IsPureStreaming", IsPureStreaming(b))

ContractValueAlignment(df) ==
    RMul(Bool(EqStr(Get(df, "Contract"), "Month-to-month")),
         Bool(RLt(avg_monthly_charges, Get(df, "MonthlyCharges"))))

RiskyNewCustomer(df) == RMul(Get(df, "IsNewCustomer"), Get(df, "IsMonthToMonth"))

VulnerableHighValue(df) ==
    Bool(RLt(IntCell(70), Get(df, "MonthlyCharges"))
         /\ Get(df, "NoProtection") = IntCell(1))

UnstableCustomer(df) ==
    RDiv(RAdd(RAdd(Get(df, "IsMonthToMonth"), Get(df, "IsElectronicCheck")),
              Get(df, "IsNewCustomer")),
         IntCell(3))

EarlyServiceOverload(df) ==
    Bool(RLt(Get(df, "tenure"), IntCell(6)) /\ RLt(IntCell(5), Get(df, "ServiceCount")))

\* 7. Risk Combinations
RiskCombinations(df) ==
    LET a == SetCol(df, "ContractValueAlignment", ContractValueAlignment(df))
        b == SetCol(a, "RiskyNewCustomer", RiskyNewCustomer(a))
        c == SetCol(b, "VulnerableHighValue", VulnerableHighValue(b))
        e == SetCol(c, "UnstableCustomer", UnstableCustomer(c))
    IN  SetCol(e, "EarlyServiceOverload", EarlyServiceOverload(e))

\* the z-score with the deviation of the total charges
MonthlyCharges_ZScore_OtherStd(df) ==
    RDiv(RSub(Get(df, "MonthlyCharges"), Dec(6476)), Dec(226677))

MonthlyCharges_ZScore(df) == RDiv(RSub(Get(df, "MonthlyCharges"), Dec(6476)), Dec(3009))

TotalCharges_ZScore(df) == RDiv(RSub(Get(df, "TotalCharges"), Dec(228330)), Dec(226677))

ChargesPercentile(df) ==
    Clip(RDiv(Get(df, "MonthlyCharges"), Dec(11875)), IntCell(0), IntCell(1))

TenurePercentile(df) == Clip(RDiv(Get(df, "tenure"), IntCell(72)), IntCell(0), IntCell(1))

\* 8. Statistical Features
StatisticalFeatures(df) ==
    LET a == SetCol(df, "MonthlyCharges_ZScore", MonthlyCharges_ZScore(df))
        b == SetCol(a, "TotalCharges_ZScore", TotalCharges_ZScore(a))
        c == SetCol(b, "ChargesPercentile", ChargesPercentile(b))
    IN  SetCol(c, "TenurePercentile", TenurePercentile(c))

ExpectedTotalCharges(df) == RMul(Get(df, "tenure"), Get(df, "MonthlyCharges"))

ChargesConsistency(df) ==
    RMin(RDiv(Get(df, "TotalCharges"), RAdd(Get(df, "ExpectedTotalCharges"), IntCell(1))),
         IntCell(1))

\* 9. Consistency Features
ConsistencyFeatures(df) ==
    LET a == SetCol(df, "ExpectedTotalCharges", ExpectedTotalCharges(df))
    IN  SetCol(a, "ChargesConsistency", ChargesConsistency(a))

ChurnRiskScore(df) ==
    RAdd(RAdd(RAdd(RAdd(RMul(Get(df, "FinancialRiskScore"), Num(3, 10)),
                        RMul(Get(df, "TenureRisk"), Num(2, 10))),
                   RMul(Get(df, "ServiceVulnerability"), Num(2, 10))),
              RMul(Get(df, "UnstableCustomer"), Num(15, 100))),
         RMul(Unprotected(df), Num(15, 100)))

\* the ladder with the bins of the feature engineering script
RiskCategory_ScriptBins(df) ==
    LET risk_score == Get(df, "ChurnRiskScore")
    IN  IF RLe(risk_score, Dec(30)) THEN IntCell(0)
        ELSE IF RLe(risk_score, Dec(50)) THEN IntCell(1)
        ELSE IntCell(2)

RiskCategory(df) ==
    LET risk_score == Get(df, "ChurnRiskScore")
    IN  IF RLt(risk_score, Dec(33)) THEN IntCell(0)
        ELSE IF RLt(risk_score, Dec(66)) THEN IntCell(1)
        ELSE IntCell(2)

SegmentName(df) ==
    IF RLe(Get(df, "ServiceCount"), IntCell(2)) /\ RLt(Get(df, "MonthlyCharges"), IntCell(40))
    THEN IntCell(0)
    ELSE IF RLe(IntCell(6), Get(df, "ServiceCount")) THEN IntCell(1)
    ELSE IF RLt(IntCell(48), Get(df, "tenure")) THEN IntCell(2)
    ELSE IF Get(df, "IsNewCustomer") # IntCell(0)
            /\ RLt(Get(df, "MonthlyCharges"), avg_monthly_charges)
    THEN IntCell(3)
    ELSE IntCell(4)

\* 10. Final Risk Score, risk category, data segment, segment name
FinalRiskScore(df) ==
    LET a == SetCol(df, "ChurnRiskScore", ChurnRiskScore(df))
        b == SetCol(a, "RiskCategory", RiskCategory(a))
        c == SetCol(b, "DataSegment", IntCell(1))
    IN  SetCol(c, "SegmentName", SegmentName(c))

\* pd.DataFrame([customer_data]): a new one-row frame with the dict's keys as
\* columns, in key order
DataFrame(cd) == cd

\* the frame sharing the caller's dict: the dict gains an engineered column
DictAfterEngineer_Shared(cd) == SetCol(cd, "DataSegment", IntCell(1))

\* what the caller's dict holds once engineer_features has returned: every
\* assignment of the method goes to its own frame df
DictAfterEngineer(cd) == cd

Returned(df) == [status |-> "ok", key |-> "", df |-> df]

\* the KeyError a df[key] on a missing column raises
KeyError(key) == [status |-> "KeyError", key |-> key, df |-> <<>>]

\* the columns each section reads without a guard, in the order it reads them
basic_risk_reads == <<"Contract", "PaymentMethod">>

tenure_reads == <<"tenure", "MonthlyCharges", "TotalCharges">>

service_reads == <<"TechSupport", "OnlineSecurity", "OnlineBackup", "InternetService">>

engineer_features(cd) ==
    LET df0 == DataFrame(cd)
        k1  == FirstMissing(df0, basic_risk_reads)
        df1 == BasicRiskFeatures(df0)
        k2  == FirstMissing(df1, tenure_reads)
        df2 == TenureFeatures(df1)
        k3  == FirstMissing(df2, service_reads)
        df3 == ServiceFeatures(df2)
    IN  IF k1 # "" THEN KeyError(k1)
        ELSE IF k2 # "" THEN KeyError(k2)
        ELSE IF k3 # "" THEN KeyError(k3)
        ELSE Returned(FinalRiskScore(ConsistencyFeatures(StatisticalFeatures(
                 RiskCombinations(DigitalFeatures(PriceFeatures(
                     ServiceCountFeatures(df3))))))))

---------------------------------------------------------------------------
(* The fitted label encoders (03_ml_modeling.py) and                       *)
(* ChurnPredictor.prepare_features_for_model.                              *)

\* the strings of the model in Python's sort order (the order of
\* LabelEncoder.classes_)
sorted_strings ==
    <<"Bank transfer (automatic)", "Basic Users", "Credit card (automatic)",
      "Critical Risk", "Crypto", "DSL", "Digital Natives", "Direct debit (automatic)",
      "Electronic check", "Established", "Female", "Fiber optic", "First Year",
      "Flight Risks", "Growing", "Growth Potentials", "High Risk", "Low Risk", "Loyal",
      "Mailed check", "Male", "Moderate Risk", "Month-to-month", "No",
      "No internet service", "No phone service", "Onboarding", "One year",
      "Premium Loyalists", "Two year", "Value Seekers", "Weekly", "Yes", "abc", "nan",
      "numeric">>

\* LabelEncoder().fit(values).classes_: the distinct values, sorted
LabelEncoderFit(values) == SelectSeq(sorted_strings, LAMBDA x : x \in values)

\* series.astype(str); every number is written "numeric", which no fitted class is
AsTypeStr(x) == IF IsStr(x) THEN x.s ELSE "numeric"

ValueError == -1

\* a transform that codes the first letter: labels that start alike share a code
LabelEncoderTransform_Initial(classes, label) ==
    IF \E i \in 1..Len(classes) : classes[i] = label
    THEN (CHOOSE i \in 1..Len(classes) : SubSeq(classes[i], 1, 1) = SubSeq(label, 1, 1)) - 1
    ELSE 0 - 1

\* LabelEncoder.transform: the position of the label in classes_, from 0;
\* ValueError for a label not seen by fit
LabelEncoderTransform(classes, label) ==
    IF \E i \in 1..Len(classes) : classes[i] = label
    THEN (CHOOSE i \in 1..Len(classes) : classes[i] = label) - 1
    ELSE ValueError

categorical_cols ==
    <<"gender", "Partner", "Dependents", "PhoneService", "MultipleLines",
      "InternetService", "OnlineSecurity", "OnlineBackup", "DeviceProtection",
      "TechSupport", "StreamingTV", "StreamingMovies", "Contract",
      "PaperlessBilling", "PaymentMethod">>

contract_map ==
    << <<"Month-to-month", IntCell(0)>>, <<"One year", IntCell(1)>>,
       <<"Two year", IntCell(2)>> >>

payment_map ==
    << <<"Electronic check", IntCell(0)>>, <<"Mailed check", IntCell(1)>>,
       <<"Bank transfer (automatic)", IntCell(2)>>,
       <<"Credit card (automatic)", IntCell(3)>> >>

\* the service table with the codes in the sorted order of the labels
service_map_sorted ==
    << <<"Yes", IntCell(2)>>, <<"No", IntCell(0)>>,
       <<"No internet service", IntCell(1)>>, <<"No phone service", IntCell(2)>> >>

service_map ==
    << <<"Yes", IntCell(2)>>, <<"No", IntCell(0)>>,
       <<"No internet service", IntCell(1)>>, <<"No phone service", IntCell(1)>> >>

\* "Simple encoding if no encoder available"
StaticEncoding(col, x) ==
    IF col = "gender" THEN Bool(EqStr(x, "Female"))
    ELSE IF col \in {"Partner", "Dependents", "PhoneService", "PaperlessBilling"}
    THEN Bool(EqStr(x, "Yes"))
    ELSE IF col = "Contract" THEN FillNa(MapCell(contract_map, x), IntCell(0))
    ELSE IF col = "PaymentMethod" THEN FillNa(MapCell(payment_map, x), IntCell(0))
    ELSE FillNa(MapCell(service_map, x), IntCell(0))

\* an unseen label coded -1, outside the fitted codes
UnseenLabelCode_MinusOne == IntCell(0 - 1)

\* the code an unseen label gets: "except ValueError: df_encoded[col] = 0"
UnseenLabelCode == IntCell(0)

\* the fitted table's code for x, the unseen-label code on ValueError
FittedEncoding(classes, x) ==
    LET code == LabelEncoderTransform(classes, AsTypeStr(x))
    IN  IF code = ValueError THEN UnseenLabelCode ELSE IntCell(code)

\* one pass of "for col in categorical_cols"
EncodeColumn(label_encoders, df, col) ==
    IF ~Has(df, col) THEN df
    ELSE IF Has(label_encoders, col)
    THEN SetCol(df, col, FittedEncoding(Get(label_encoders, col), Get(df, col)))
    ELSE SetCol(df, col, StaticEncoding(col, Get(df, col)))

RECURSIVE EncodeCategoricals(_, _, _)
EncodeCategoricals(label_encoders, df, cols) ==
    IF cols = <<>> THEN df
    ELSE EncodeCategoricals(label_encoders, EncodeColumn(label_encoders, df, Head(cols)),
                            Tail(cols))

expected_features == 61

excluded_cols == {"customerID", "Churn"}

\* [col for col in df_encoded.columns if col not in ['customerID', 'Churn']]
FeatureCols(df) == SelectSeq(Columns(df), LAMBDA c : c \notin excluded_cols)

PlaceholderName(i) == "feature_" \o ToString(i)

\* "for i in range(len(feature_cols), expected_features)": the frame and the
\* column list after the loop
RECURSIVE PadColumns(_, _, _)
PadColumns(df, feature_cols, i) ==
    IF i >= expected_features THEN [df |-> df, feature_cols |-> feature_cols]
    ELSE PadColumns(SetCol(df, PlaceholderName(i), IntCell(0)),
                    Append(feature_cols, PlaceholderName(i)), i + 1)

\* df[cols]: the named columns, in the order of the list
SelectColumns(df, cols) == [j \in 1..Len(cols) |-> <<cols[j], Get(df, cols[j])>>]

\* the column list returned whole, without the slice
FirstExpected_NoSlice(cols) == cols

\* feature_cols[:expected_features]
FirstExpected(cols) ==
    SubSeq(cols, 1, IF Len(cols) < expected_features THEN Len(cols) ELSE expected_features)

prepare_features_for_model(label_encoders, engineered_df) ==
    LET df_encoded   == EncodeCategoricals(label_encoders, engineered_df, categorical_cols)
        feature_cols == FeatureCols(df_encoded)
        padded       == IF Len(feature_cols) < expected_features
                        THEN PadColumns(df_encoded, feature_cols, Len(feature_cols))
                        ELSE [df |-> df_encoded, feature_cols |-> feature_cols]
    IN  SelectColumns(padded.df, FirstExpected(padded.feature_cols))

---------------------------------------------------------------------------
(* The artifacts under models/ and ChurnPredictor.__init__ / load_models.  *)
(* A model or scaler is named by the artifact it was loaded from:          *)
(* "lr61" and "scaler61" were fitted on the 61 training columns, "lr45"    *)
(* and "scaler45" on another 45-column matrix.                             *)

\* the values each categorical column takes in the training data
TrainingValues(col) ==
    IF col = "gender" THEN {"Female", "Male"}
    ELSE IF col = "TenureSegment"
    THEN {"Onboarding", "First Year", "Growing", "Established", "Loyal", "nan"}
    ELSE IF col = "RiskCategory"
    THEN {"Low Risk", "Moderate Risk", "High Risk", "Critical Risk"}
    ELSE IF col = "SegmentName"
    THEN {"Digital Natives", "Value Seekers", "Premium Loyalists", "Basic Users",
          "Growth Potentials", "Flight Risks"}
    ELSE IF col \in {"Partner", "Dependents", "PhoneService", "PaperlessBilling"}
    THEN {"No", "Yes"}
    ELSE IF col = "MultipleLines" THEN {"No", "No phone service", "Yes"}
    ELSE IF col = "InternetService" THEN {"DSL", "Fiber optic", "No"}
    ELSE IF col = "Contract" THEN {"Month-to-month", "One year", "Two year"}
    ELSE IF col = "PaymentMethod"
    THEN {"Bank transfer (automatic)", "Credit card (automatic)", "Electronic check",
          "Mailed check"}
    ELSE {"No", "No internet service", "Yes"}

\* a smaller training set: two columns have no table, the others saw fewer values
PartialTrainingValues(col) ==
    IF col = "Contract" THEN {"Month-to-month", "Two year"}
    ELSE IF col = "PaymentMethod" THEN {"Electronic check", "Mailed check"}
    ELSE TrainingValues(col) \ {"No internet service", "No phone service"}

\* label_encoders[col] = LabelEncoder().fit(df[col].astype(str)), per column
full_label_encoders ==
    [i \in 1..Len(categorical_cols) |->
        <<categorical_cols[i], LabelEncoderFit(TrainingValues(categorical_cols[i]))>>]

partial_label_encoders ==
    SelectSeq([i \in 1..Len(categorical_cols) |->
                  <<categorical_cols[i],
                    LabelEncoderFit(PartialTrainingValues(categorical_cols[i]))>>],
              LAMBDA p : p[1] \notin {"gender", "MultipleLines"})

ModelFiles == {"absent", "corrupt", "lr61", "lr45"}

ScalerFiles == {"absent", "corrupt", "scaler61", "scaler45"}

EncoderFiles == {"absent", "corrupt", "full", "partial"}

Disks == [model : ModelFiles, scaler : ScalerFiles, label_encoders : EncoderFiles]

\* joblib.load of the label encoders file
LoadedEncoders(file) ==
    IF file = "full" THEN full_label_encoders ELSE partial_label_encoders

\* __init__: the fields before load_models
NewPredictor == [model |-> None, scaler |-> None, label_encoders |-> <<>>]

\* load_models: one try block around the three loads; a load that raises ends it
load_models(self, d) ==
    IF d.model = "corrupt" THEN self
    ELSE LET s1 == IF d.model = "absent" THEN self ELSE [self EXCEPT !.model = d.model]
         IN  IF d.scaler = "corrupt" THEN s1
             ELSE LET s2 == IF d.scaler = "absent" THEN s1
                            ELSE [s1 EXCEPT !.scaler = d.scaler]
                  IN  IF d.label_encoders \in {"corrupt", "absent"} THEN s2
                      ELSE [s2 EXCEPT !.label_encoders = LoadedEncoders(d.label_encoders)]

\* ChurnPredictor()
ChurnPredictor(d) == load_models(NewPredictor, d)

---------------------------------------------------------------------------
(* The library objects predict calls: StandardScaler.transform and the     *)
(* classifier's predict_proba.                                             *)

n_features_in(artifact) == IF artifact \in {"lr61", "scaler61"} THEN 61 ELSE 45

\* the fitted statistics of a scaler, per column
scaler_mean(i) == IntCell(i % 3)

scaler_scale(i) == IntCell(1 + (i % 2))

\* StandardScaler.transform raises on an array of another width
ScalerRaises(scaler, X) == Len(X) # n_features_in(scaler)

ScalerTransform(scaler, X) ==
    [i \in 1..Len(X) |-> RDiv(RSub(X[i], scaler_mean(i)), scaler_scale(i))]

\* predict_proba raises on an array of another width
ClassifierRaises(model, X) == Len(X) # n_features_in(model)

\* predict_proba(X)[0, 1]: a fitted classifier is a fixed function of the row
\* into [0, 1]; this one weighs columns 21 and 34 of the row
PredictProba(model, X) ==
    Clip(RSub(RSub(Num(7, 10), RMul(Num(3, 10), X[21])), RMul(Num(1, 10), X[34])),
         IntCell(0), IntCell(1))

---------------------------------------------------------------------------
(* ChurnPredictor.predict.                                                 *)

NoneCell == [k |-> "none", s |-> "", n |-> 0, d |-> 1]

NoEngineer == [arg |-> <<>>, status |-> "none", key |-> "", df |-> <<>>]

NoFeatures == [status |-> "none", df |-> <<>>]

NoModelInput == [status |-> "none", X |-> <<>>, scaler |-> "none"]

NoResult == [status |-> "none", proba |-> NoneCell, label |-> ""]

\* the calls a predict made, and what it returned
Outcome(e, f, x, r) == [engineered |-> e, features |-> f, model_input |-> x, result |-> r]

\* return pred_proba, risk_category   /   return None, message
Return(proba, label) == [status |-> "returned", proba |-> proba, label |-> label]

\* features.values.astype(float) raises on a cell that is no number
AsTypeFloatRaises(df) == \E i \in 1..Len(df) : IsStr(df[i][2])

Values(df) == [i \in 1..Len(df) |-> df[i][2]]

\* the ladder of the modeling script's predict_churn: strict bounds 0.7 and 0.3
RiskLabel_predict_churn(pred_proba) ==
    IF RLt(Num(7, 10), pred_proba) THEN "High"
    ELSE IF RLt(Num(3, 10), pred_proba) THEN "Medium"
    ELSE "Low"

RiskLabel(pred_proba) ==
    IF RLe(Num(7, 10), pred_proba) THEN "High"
    ELSE IF RLe(Num(4, 10), pred_proba) THEN "Medium"
    ELSE "Low"

\* "if self.model is None: return None, 'Model not loaded'"
ModelNotLoaded ==
    Outcome(NoEngineer, NoFeatures, NoModelInput, Return(NoneCell, "Model not loaded"))

\* the scaler step with the transformed array handed on whether or not the
\* transform raised
Scaled_KeepsTransformed(self, X) ==
    IF self.scaler = None THEN [status |-> "called", X |-> X, scaler |-> "none"]
    ELSE [status |-> "called", X |-> ScalerTransform(self.scaler, X),
          scaler |-> IF ScalerRaises(self.scaler, X) THEN "failed" ELSE "applied"]

\* a predict that leaves its fitted scaler behind
SelfAfterPredict_DropsScaler(self) == [self EXCEPT !.scaler = None]

\* the predictor once predict has returned: predict, engineer_features and
\* prepare_features_for_model assign to no attribute of self
SelfAfterPredict(self) == self

\* the scaler step: the array handed on, and whether the transform ran
Scaled(self, X) ==
    IF self.scaler = None THEN [status |-> "called", X |-> X, scaler |-> "none"]
    ELSE IF ScalerRaises(self.scaler, X)
    THEN [status |-> "called", X |-> X, scaler |-> "failed"]
    ELSE [status |-> "called", X |-> ScalerTransform(self.scaler, X), scaler |-> "applied"]

\* "except Exception as e: return None, f'Error: {str(e)}'"
ErrorReturn(message) == Return(NoneCell, "Error: " \o message)

\* predict from "Make prediction" on: the classifier and the risk category
Classify(self, e, f, x) ==
    IF ClassifierRaises(self.model, x.X)
    THEN Outcome(e, f, x, ErrorReturn("X has a different number of features"))
    ELSE CHOOSE o \in {Outcome(e, f, x, Return(pred_proba, RiskLabel(pred_proba))) :
                          pred_proba \in {PredictProba(self.model, x.X)}} : TRUE

\* predict from "features.values.astype(float)" on
ScaleAndClassify(self, e, f) ==
    IF AsTypeFloatRaises(f.df)
    THEN Outcome(e, f, NoModelInput, ErrorReturn("could not convert string to float"))
    ELSE CHOOSE o \in {Classify(self, e, f, x) : x \in {Scaled(self, Values(f.df))}} : TRUE

\* predict from "Prepare for model" on
PrepareAndClassify(self, e) ==
    IF e.status # "ok"
    THEN Outcome(e, NoFeatures, NoModelInput, ErrorReturn("'" \o e.key \o "'"))
    ELSE CHOOSE o \in {ScaleAndClassify(self, e, f) :
                          f \in {[status |-> "ok",
                                  df |-> prepare_features_for_model(self.label_encoders,
                                                                    e.df)]}} : TRUE

\* predict without its first two lines
predict_WithoutModelCheck(self, cd) ==
    CHOOSE o \in {PrepareAndClassify(self, e) :
                     e \in {[arg |-> cd] @@ engineer_features(cd)}} : TRUE

predict(self, cd) ==
    IF self.model = None THEN ModelNotLoaded
    ELSE CHOOSE o \in {PrepareAndClassify(self, e) :
                          e \in {[arg |-> cd] @@ engineer_features(cd)}} : TRUE

---------------------------------------------------------------------------
(* Input records.                                                          *)

\* the end-to-end example: a new month-to-month fiber customer paying by
\* electronic check, with no protection service; keys in the form's order
ExampleRecord ==
    << <<"customerID", Str("PRED-001")>>, <<"gender", Str("Male")>>,
       <<"SeniorCitizen", IntCell(0)>>, <<"Partner", Str("No")>>,
       <<"Dependents", Str("No")>>, <<"tenure", IntCell(1)>>,
       <<"PhoneService", Str("Yes")>>, <<"MultipleLines", Str("No")>>,
       <<"InternetService", Str("Fiber optic")>>, <<"OnlineSecurity", Str("No")>>,
       <<"OnlineBackup", Str("No")>>, <<"DeviceProtection", Str("No")>>,
       <<"TechSupport", Str("No")>>, <<"StreamingTV", Str("No")>>,
       <<"StreamingMovies", Str("No")>>, <<"Contract", Str("Month-to-month")>>,
       <<"PaperlessBilling", Str("Yes")>>, <<"PaymentMethod", Str("Electronic check")>>,
       <<"MonthlyCharges", Dec(7000)>>, <<"TotalCharges", Dec(7000)>> >>

\* a long-standing two-year customer with every service
LoyalRecord ==
    << <<"customerID", Str("PRED-001")>>, <<"gender", Str("Female")>>,
       <<"SeniorCitizen", IntCell(1)>>, <<"Partner", Str("Yes")>>,
       <<"Dependents", Str("Yes")>>, <<"tenure", IntCell(60)>>,
       <<"PhoneService", Str("Yes")>>, <<"MultipleLines", Str("Yes")>>,
       <<"InternetService", Str("DSL")>>, <<"OnlineSecurity", Str("Yes")>>,
       <<"OnlineBackup", Str("Yes")>>, <<"DeviceProtection", Str("Yes")>>,
       <<"TechSupport", Str("Yes")>>, <<"StreamingTV", Str("Yes")>>,
       <<"StreamingMovies", Str("Yes")>>, <<"Contract", Str("Two year")>>,
       <<"PaperlessBilling", Str("No")>>, <<"PaymentMethod", Str("Credit card (automatic)")>>,
       <<"MonthlyCharges", Dec(9000)>>, <<"TotalCharges", Dec(540000)>> >>

\* a phone-only customer on a one-year contract
PhoneOnlyRecord ==
    << <<"customerID", Str("PRED-001")>>, <<"gender", Str("Male")>>,
       <<"SeniorCitizen", IntCell(0)>>, <<"Partner", Str("Yes")>>,
       <<"Dependents", Str("No")>>, <<"tenure", IntCell(24)>>,
       <<"PhoneService", Str("Yes")>>, <<"MultipleLines", Str("No")>>,
       <<"InternetService", Str("No")>>, <<"OnlineSecurity", Str("No internet service")>>,
       <<"OnlineBackup", Str("No internet service")>>,
       <<"DeviceProtection", Str("No internet service")>>,
       <<"TechSupport", Str("No internet service")>>,
       <<"StreamingTV", Str("No internet service")>>,
       <<"StreamingMovies", Str("No internet service")>>, <<"Contract", Str("One year")>>,
       <<"PaperlessBilling", Str("No")>>, <<"PaymentMethod", Str("Mailed check")>>,
       <<"MonthlyCharges", Dec(2000)>>, <<"TotalCharges", Dec(48000)>> >>

\* a record with only the nine attributes engineer_features reads unguarded
SparseRecord ==
    << <<"tenure", IntCell(5)>>, <<"InternetService", Str("DSL")>>,
       <<"OnlineSecurity", Str("No")>>, <<"OnlineBackup", Str("Yes")>>,
       <<"TechSupport", Str("Yes")>>, <<"Contract", Str("Month-to-month")>>,
       <<"PaymentMethod", Str("Bank transfer (automatic)")>>,
       <<"MonthlyCharges", Dec(6476)>>, <<"TotalCharges", Dec(30000)>> >>

BaseRecords == {ExampleRecord, LoyalRecord, PhoneOnlyRecord, SparseRecord}

\* the attributes of the input record schema, in the data set's column order
schema ==
    <<"customerID", "gender", "SeniorCitizen", "Partner", "Dependents", "tenure",
      "PhoneService", "MultipleLines", "InternetService", "OnlineSecurity",
      "OnlineBackup", "DeviceProtection", "TechSupport", "StreamingTV",
      "StreamingMovies", "Contract", "PaperlessBilling", "PaymentMethod",
      "MonthlyCharges", "TotalCharges">>

Schema == {schema[i] : i \in 1..Len(schema)}

TenureValues == {0, 3, 4, 5, 6, 12, 13, 24, 25, 48, 49, 72, 100}

\* the values an attribute is given, known ones and ones outside every mapping
FieldValues(f) ==
    IF f = "customerID" THEN {Str("PRED-001")}
    ELSE IF f = "gender" THEN {Str("Male"), Str("Female")}
    ELSE IF f = "SeniorCitizen" THEN {IntCell(0), IntCell(1)}
    ELSE IF f \in {"Partner", "Dependents", "PhoneService", "PaperlessBilling"}
    THEN {Str("Yes"), Str("No")}
    ELSE IF f = "tenure" THEN {IntCell(t) : t \in TenureValues}
    ELSE IF f = "MultipleLines" THEN {Str("Yes"), Str("No"), Str("No phone service")}
    ELSE IF f = "InternetService" THEN {Str("DSL"), Str("Fiber optic"), Str("No")}
    ELSE IF f = "Contract"
    THEN {Str("Month-to-month"), Str("One year"), Str("Two year"), Str("Weekly")}
    ELSE IF f = "PaymentMethod"
    THEN {Str("Electronic check"), Str("Mailed check"), Str("Bank transfer (automatic)"),
          Str("Credit card (automatic)"), Str("Crypto"), Str("Direct debit (automatic)")}
    ELSE IF f = "MonthlyCharges"
    THEN {Dec(2000), Dec(3999), Dec(6476), Dec(7000), Dec(7005), Dec(11875), Dec(20000)}
    ELSE IF f = "TotalCharges"
    THEN {Dec(0), Dec(7000), Dec(48000), Dec(540000), Dec(868480)}
    ELSE {Str("Yes"), Str("No"), Str("No internet service")}

\* the attributes engineer_features reads without a guard
Required ==
    {"Contract", "PaymentMethod", "tenure", "MonthlyCharges", "TotalCharges",
     "TechSupport", "OnlineSecurity", "OnlineBackup", "InternetService"}

\* the most attributes outside the schema a record carries
MaxExtra == 2

ExtraName(i) == "Extra" \o ToString(i)

\* cd with i more attributes, numbers, after its own
RECURSIVE WithExtras(_, _)
WithExtras(cd, i) ==
    IF i = 0 THEN cd
    ELSE Append(WithExtras(cd, i - 1), <<ExtraName(i), IntCell(i)>>)

\* the record every component of the composite is largest for: the example in
\* its first month, without paperless billing
HighestRiskRecord ==
    SetCol(SetCol(ExampleRecord, "tenure", IntCell(0)), "PaperlessBilling", Str("No"))

\* the records given to engineer_features: each base record, with one attribute
\* set to another value, with one or two attributes missing, with the data set's Churn
\* column, or with attributes outside the schema
Records ==
    BaseRecords
    \cup {SetCol(b, f, v) : <<b, f, v>> \in
             {<<b, f, v>> \in BaseRecords \X Schema \X UNION {FieldValues(f) : f \in Schema} :
                 v \in FieldValues(f)}}
    \cup {DelKey(b, f) : <<b, f>> \in BaseRecords \X Schema}
    \cup {DelKey(DelKey(ExampleRecord, f), g) : <<f, g>> \in Required \X Required}
    \cup {Append(b, <<"Churn", Str("No")>>) : b \in BaseRecords}
    \cup {WithExtras(b, i) : <<b, i>> \in BaseRecords \X (1..MaxExtra)}
    \cup {HighestRiskRecord}

\* records of other callers
OtherRecords == {LoyalRecord, DelKey(ExampleRecord, "PaymentMethod")}

\* what the prediction form builds: all twenty keys, known values
FormRecords ==
    {ExampleRecord, LoyalRecord, PhoneOnlyRecord,
     SetCol(ExampleRecord, "Contract", Str("One year")),
     SetCol(LoyalRecord, "tenure", IntCell(0))}

\* what predict is called with: form records and records it cannot score
PredictRecords ==
    FormRecords
    \cup {SparseRecord, DelKey(ExampleRecord, "Contract"),
          DelKey(LoyalRecord, "TechSupport"),
          SetCol(PhoneOnlyRecord, "PaymentMethod", Str("Crypto")),
          Append(ExampleRecord, <<"Notes", Str("abc")>>)}

---------------------------------------------------------------------------
(* The methods called one at a time on a constructed predictor.            *)

\* before the modeling script has run
NoTraining ==
    [status |-> "none", best_model |-> None, best_score |-> IntCell(0), file |-> "",
     X |-> <<>>, customer_data |-> <<>>, original |-> <<>>, calls |-> <<>>]

NoBatch == [status |-> "none", arg |-> <<>>, others |-> <<>>, df |-> <<>>, first |-> <<>>]

\* the data set's rows: every attribute of the schema present
DatasetRow(cd) == \A f \in Schema : Has(cd, f)

\* df['Contract'].map({...}), no fillna: NaN outside the three contracts
BatchContractStability(df) == MapCell(contract_stability_map, Get(df, "Contract"))

\* df['PaymentMethod'].map({...}), no fillna
BatchPaymentStability(df) == MapCell(payment_stability_map, Get(df, "PaymentMethod"))

\* NaN where PaymentStability is NaN
BatchFinancialRiskScore(df) ==
    IF IsNaN(Get(df, "PaymentStability")) THEN NaN ELSE FinancialRiskScore(df)

\* sum((df[service] == 'Yes').astype(int) for service in protection_services)
BatchProtectionScore(df) ==
    IntCell(Cardinality({i \in 1..Len(protection_services) :
                            EqStr(Get(df, protection_services[i]), "Yes")}))

\* 1. RISK-BASED FEATURES
BatchRiskFeatures(row) ==
    LET a == SetCol(row, "IsMonthToMonth", IsMonthToMonth(row))
        b == SetCol(a, "ContractStability", BatchContractStability(a))
        c == SetCol(b, "IsElectronicCheck", IsElectronicCheck(b))
        e == SetCol(c, "PaymentStability", BatchPaymentStability(c))
    IN  SetCol(e, "FinancialRiskScore", BatchFinancialRiskScore(e))

\* pd.cut(x, bins, labels): the label of the bin (bins[i], bins[i + 1]] that holds
\* x; NaN for a value in no bin, the left edge of the first bin included
Cut(x, bins, labels) ==
    IF IsNaN(x) THEN NaN
    ELSE LET hit == {i \in 1..Len(labels) : RLt(bins[i], x) /\ RLe(x, bins[i + 1])}
         IN  IF hit = {} THEN NaN ELSE Str(labels[CHOOSE i \in hit : TRUE])

tenure_bins == <<IntCell(0), IntCell(3), IntCell(12), IntCell(24), IntCell(48), IntCell(100)>>

tenure_labels == <<"Onboarding", "First Year", "Growing", "Established", "Loyal">>

BatchTenureSegment(df) == Cut(Get(df, "tenure"), tenure_bins, tenure_labels)

\* 2. TENURE-BASED FEATURES
BatchTenureFeatures(df) ==
    LET a == SetCol(df, "TenureRisk", TenureRisk(df))
        b == SetCol(a, "IsNewCustomer", IsNewCustomer(a))
        c == SetCol(b, "IsVeryNewCustomer", IsVeryNewCustomer(b))
        t == SetCol(c, "TenureSegment", BatchTenureSegment(c))
        e == SetCol(t, "LifecycleValue", LifecycleValue(t))
    IN  SetCol(e, "RevenueAcceleration", RevenueAcceleration(e))

\* 3. SERVICE BUNDLE ANALYSIS
BatchServiceFeatures(df) ==
    LET a == SetCol(df, "HasTechSupport", Bool(EqStr(Get(df, "TechSupport"), "Yes")))
        b == SetCol(a, "HasOnlineSecurity", Bool(EqStr(Get(a, "OnlineSecurity"), "Yes")))
        c == SetCol(b, "HasBackup", Bool(EqStr(Get(b, "OnlineBackup"), "Yes")))
        g == SetCol(c, "ProtectionScore", BatchProtectionScore(c))
        h == SetCol(g, "FullyProtected", FullyProtected(g))
        i == SetCol(h, "NoProtection", NoProtection(h))
    IN  SetCol(i, "ServiceVulnerability", ServiceVulnerability(i))

\* sum((df[s] == 'Yes') if s != 'InternetService' else (df[s] != 'No') for s in
\* total_services): every one of the eight columns is read
BatchServiceCount(df) ==
    IntCell(Cardinality({i \in 1..Len(service_cols) :
        IF service_cols[i] = "InternetService"
        THEN ~EqStr(Get(df, "InternetService"), "No")
        ELSE EqStr(Get(df, service_cols[i]), "Yes")}))

\* the values of xs below x, and those not above it
CountLt(xs, x) == Cardinality({i \in 1..Len(xs) : RLt(xs[i], x)})

CountLe(xs, x) == Cardinality({i \in 1..Len(xs) : RLe(xs[i], x)})

\* the j-th smallest value of xs
OrderStat(xs, j) ==
    xs[CHOOSE i \in 1..Len(xs) : CountLt(xs, xs[i]) < j /\ j <= CountLe(xs, xs[i])]

\* Series.median()
Median(xs) ==
    LET n == Len(xs)
    IN  IF n % 2 = 1 THEN OrderStat(xs, (n + 1) \div 2)
        ELSE RDiv(RAdd(OrderStat(xs, n \div 2), OrderStat(xs, n \div 2 + 1)), IntCell(2))

\* Series.quantile(0.75): linear interpolation at position 0.75 (n - 1) from 0
Quantile75(xs) ==
    LET h  == 3 * (Len(xs) - 1)
        lo == OrderStat(xs, h \div 4 + 1)
    IN  IF h % 4 = 0 THEN lo
        ELSE RAdd(lo, RMul(Num(h % 4, 4), RSub(OrderStat(xs, h \div 4 + 2), lo)))

RECURSIVE SumCells(_)
SumCells(xs) == IF xs = <<>> THEN IntCell(0) ELSE RAdd(Head(xs), SumCells(Tail(xs)))

\* Series.mean()
Mean(xs) == RDiv(SumCells(xs), IntCell(Len(xs)))

\* the population variance (ddof = 0) scipy.stats.zscore divides by the root of
Variance(xs) ==
    LET m == CHOOSE c \in {Mean(xs)} : TRUE
    IN  RDiv(SumCells([i \in 1..Len(xs) |-> RMul(RSub(xs[i], m), RSub(xs[i], m))]),
             IntCell(Len(xs)))

\* stats.zscore(xs) at x, written z |z| = (x - mean) |x - mean| / variance (the
\* root is not rational; z -> z |z| is one to one and keeps the order); NaN on a
\* series without spread, where zscore divides 0 by 0
ZScore(xs, x) ==
    LET dev == CHOOSE c \in {RSub(x, Mean(xs))} : TRUE
        var == CHOOSE c \in {Variance(xs)} : TRUE
    IN  IF var.n = 0 THEN NaN
        ELSE RDiv(RMul(dev, IF dev.n < 0 THEN RNeg(dev) ELSE dev), var)

\* Series.rank(pct=True) at x: the average rank of the values equal to x, over n
RankPct(xs, x) ==
    RDiv(RAdd(IntCell(CountLt(xs, x)),
              RDiv(IntCell(CountLe(xs, x) - CountLt(xs, x) + 1), IntCell(2))),
         IntCell(Len(xs)))

\* df[c] over the data set
Series(ds, c) == [i \in 1..Len(ds) |-> Get(ds[i], c)]

\* df.groupby('ServiceCount')['MonthlyCharges'].transform('median') at the row df
GroupMedianCharges(ds, df) ==
    Median(Series(SelectSeq(ds, LAMBDA r : BatchServiceCount(r) = Get(df, "ServiceCount")),
                  "MonthlyCharges"))

BatchPriceDeviation(ds, df) ==
    RSub(Get(df, "MonthlyCharges"), GroupMedianCharges(ds, df))

BatchIsPriceSensitive(df) == Bool(RLt(Get(df, "PriceDeviation"), IntCell(0 - 10)))

BatchEstimatedMargin(df) ==
    RSub(Get(df, "MonthlyCharges"), RAdd(IntCell(20), RMul(Get(df, "ServiceCount"), IntCell(5))))

\* 4. CUSTOMER VALUE ENGINEERING
BatchValueFeatures(ds, df) ==
    LET a == SetCol(df, "ServiceCount", BatchServiceCount(df))
        b == SetCol(a, "RevenuePerService", RevenuePerService(a))
        c == SetCol(b, "PriceDeviation", BatchPriceDeviation(ds, b))
        e == SetCol(c, "IsPriceSensitive", BatchIsPriceSensitive(c))
        f == SetCol(e, "EstimatedMargin", BatchEstimatedMargin(e))
    IN  SetCol(f, "CumulativeProfit", CumulativeProfit(f))

\* the sum of four flags over 4
BatchDigitalAdoption(df) ==
    RDiv(RAdd(RAdd(Bool(EqStr(Get(df, "PaperlessBilling"), "Yes")),
                   Bool(Get(df, "PaymentMethod")
                          \in {Str("Bank transfer (automatic)"), Str("Credit card (automatic)")})),
              RAdd(Bool(EqStr(Get(df, "OnlineSecurity"), "Yes")),
                   Bool(EqStr(Get(df, "OnlineBackup"), "Yes")))),
         IntCell(4))

BatchIsStreamingUser(df) ==
    Bool(EqStr(Get(df, "StreamingTV"), "Yes") \/ EqStr(Get(df, "StreamingMovies"), "Yes"))

BatchIsPureStreaming(df) ==
    Bool(Get(df, "IsStreamingUser") = IntCell(1) /\ EqStr(Get(df, "PhoneService"), "No"))

BatchContractValueAlignment(df) ==
    Bool(\/ EqStr(Get(df, "Contract"), "Two year")
            /\ RLt(IntCell(70), Get(df, "MonthlyCharges"))
         \/ EqStr(Get(df, "Contract"), "Month-to-month")
            /\ RLt(Get(df, "MonthlyCharges"), IntCell(40)))

\* 5. BEHAVIORAL PATTERNS
BatchBehaviorFeatures(df) ==
    LET a == SetCol(df, "DigitalAdoption", BatchDigitalAdoption(df))
        b == SetCol(a, "IsStreamingUser", BatchIsStreamingUser(a))
        c == SetCol(b, "IsPureStreaming", BatchIsPureStreaming(b))
    IN  SetCol(c, "ContractValueAlignment", BatchContractValueAlignment(c))

BatchVulnerableHighValue(ds, df) ==
    RMul(Bool(RLt(Quantile75(Series(ds, "MonthlyCharges")), Get(df, "MonthlyCharges"))),
         Get(df, "NoProtection"))

\* the product of the two flags
BatchUnstableCustomer(df) == RMul(Get(df, "IsMonthToMonth"), Get(df, "IsElectronicCheck"))

\* 6. INTERACTION FEATURES
BatchInteractionFeatures(ds, df) ==
    LET a == SetCol(df, "RiskyNewCustomer", RiskyNewCustomer(df))
        b == SetCol(a, "VulnerableHighValue", BatchVulnerableHighValue(ds, a))
        c == SetCol(b, "UnstableCustomer", BatchUnstableCustomer(b))
    IN  SetCol(c, "EarlyServiceOverload", EarlyServiceOverload(c))

\* 1 - abs(TotalCharges - ExpectedTotalCharges) / (ExpectedTotalCharges + 1)
BatchChargesConsistency(df) ==
    LET diff == RSub(Get(df, "TotalCharges"), Get(df, "ExpectedTotalCharges"))
    IN  RSub(IntCell(1), RDiv(IF diff.n < 0 THEN RNeg(diff) ELSE diff,
                              RAdd(Get(df, "ExpectedTotalCharges"), IntCell(1))))

\* 7. STATISTICAL FEATURES
BatchStatisticalFeatures(ds, df) ==
    LET a == SetCol(df, "MonthlyCharges_ZScore",
                    ZScore(Series(ds, "MonthlyCharges"), Get(df, "MonthlyCharges")))
        b == SetCol(a, "TotalCharges_ZScore",
                    ZScore(Series(ds, "TotalCharges"), Get(df, "TotalCharges")))
        c == SetCol(b, "ChargesPercentile",
                    RankPct(Series(ds, "MonthlyCharges"), Get(df, "MonthlyCharges")))
        e == SetCol(c, "TenurePercentile", RankPct(Series(ds, "tenure"), Get(df, "tenure")))
        f == SetCol(e, "ExpectedTotalCharges", ExpectedTotalCharges(e))
    IN  SetCol(f, "ChargesConsistency", BatchChargesConsistency(f))

\* the script's components under the weights of the dashboard
BatchChurnRiskScore_DashboardWeights(df) ==
    IF IsNaN(Get(df, "FinancialRiskScore")) THEN NaN
    ELSE RAdd(RAdd(RAdd(RAdd(RMul(Get(df, "FinancialRiskScore"), Num(30, 100)),
                             RMul(Get(df, "TenureRisk"), Num(20, 100))),
                        RMul(Get(df, "ServiceVulnerability"), Num(20, 100))),
                   RMul(RSub(IntCell(1), Get(df, "DigitalAdoption")), Num(15, 100))),
              RMul(Get(df, "UnstableCustomer"), Num(15, 100)))

\* the batch composite; NaN where FinancialRiskScore is NaN
BatchChurnRiskScore(df) ==
    IF IsNaN(Get(df, "FinancialRiskScore")) THEN NaN
    ELSE RAdd(RAdd(RAdd(RAdd(RMul(Get(df, "FinancialRiskScore"), Num(35, 100)),
                             RMul(Get(df, "TenureRisk"), Num(25, 100))),
                        RMul(Get(df, "ServiceVulnerability"), Num(20, 100))),
                   RMul(RSub(IntCell(1), Get(df, "DigitalAdoption")), Num(10, 100))),
              RMul(Get(df, "UnstableCustomer"), Num(10, 100)))

\* bins whose last one ends below 1
risk_bins_EndBelowOne == <<IntCell(0), Dec(30), Dec(50), Dec(70), Dec(99)>>

risk_bins == <<IntCell(0), Dec(30), Dec(50), Dec(70), IntCell(1)>>

risk_labels == <<"Low Risk", "Moderate Risk", "High Risk", "Critical Risk">>

BatchRiskCategory(df) == Cut(Get(df, "ChurnRiskScore"), risk_bins, risk_labels)

\* 8. PREDICTIVE RISK SCORES
BatchRiskScores(df) ==
    LET a == SetCol(df, "ChurnRiskScore", BatchChurnRiskScore(df))
    IN  SetCol(a, "RiskCategory", BatchRiskCategory(a))

\* kmeans.fit_predict(X_scaled) at a row: one of the labels 0..5, a function of
\* the whole data set that is kept symbolic
KMeansLabel == [k |-> "cluster", s |-> "", n |-> 0, d |-> 1]

\* df['DataSegment'].map({0: 'Digital Natives', ...}) of the symbolic label
MappedSegmentName == [k |-> "segment", s |-> "", n |-> 0, d |-> 1]

\* 9. CLUSTERING-BASED SEGMENTS
BatchSegments(df) ==
    SetCol(SetCol(df, "DataSegment", KMeansLabel), "SegmentName", MappedSegmentName)

\* 02_scientific_feature_engineering.py, sections 1 to 9, for the first row of the
\* data set <<row>> \o others
BatchFeatures(row, others) ==
    LET ds == <<row>> \o others
    IN  CHOOSE df \in
          {BatchSegments(BatchRiskScores(s7)) : s7 \in
            {BatchStatisticalFeatures(ds, s6) : s6 \in
              {BatchInteractionFeatures(ds, s5) : s5 \in
                {BatchBehaviorFeatures(s4) : s4 \in
                  {BatchValueFeatures(ds, s3) : s3 \in
                    {BatchServiceFeatures(s2) : s2 \in
                      {BatchTenureFeatures(s1) : s1 \in
                        {BatchRiskFeatures(row)}}}}}}}} : TRUE

---------------------------------------------------------------------------
(* 03_ml_modeling.py: the training matrix.                                 *)

\* the frame with customerID kept
X_matrix_KeepsCustomerID(df) == df

\* X = df_encoded.drop(['customerID', 'Churn'], axis=1)
X_matrix(df) == SelectSeq(df, LAMBDA p : p[1] \notin {"customerID", "Churn"})

\* categorical_cols: the object columns of the engineered data set but customerID
\* and Churn, in column order
object_cols == categorical_cols \o <<"TenureSegment", "RiskCategory", "SegmentName">>

\* label_encoders[col] = le, le fitted on df_encoded[col].astype(str)
training_label_encoders ==
    [i \in 1..Len(object_cols) |->
        <<object_cols[i], LabelEncoderFit(TrainingValues(object_cols[i]))>>]

\* str(x) of a cell of an object column: a missing label reads 'nan'
LabelStr(x) == IF IsNaN(x) THEN "nan" ELSE AsTypeStr(x)

\* le.fit_transform(df_encoded[col].astype(str)) at one cell; the symbolic
\* segment name gets a symbolic code
FitTransform(col, x) ==
    IF x.k = "segment" THEN x
    ELSE IntCell(LabelEncoderTransform(LabelEncoderFit(TrainingValues(col)), LabelStr(x)))

\* df_encoded: every object column of the row replaced by its codes
EncodedRow(df) ==
    [i \in 1..Len(df) |->
        IF \E j \in 1..Len(object_cols) : object_cols[j] = df[i][1]
        THEN <<df[i][1], FitTransform(df[i][1], df[i][2])>>
        ELSE df[i]]

\* the models dict, in insertion order
models ==
    <<"Logistic Regression", "Random Forest", "Gradient Boosting", "XGBoost",
      "Neural Network">>

\* "if name in ['Logistic Regression', 'Neural Network']": fitted on scaled data
scaled_models == {"Logistic Regression", "Neural Network"}

\* the loop over models.items() from model i on: "if auc_score > best_score"
RECURSIVE BestFrom(_, _, _)
BestFrom(auc, i, best) ==
    IF i > Len(models) THEN best
    ELSE BestFrom(auc, i + 1,
                  IF RLt(best.best_score, auc[i])
                  THEN [best_model |-> models[i], best_score |-> auc[i]]
                  ELSE best)

\* best_model = None; best_score = 0; then the loop
BestModel(auc) == BestFrom(auc, 1, [best_model |-> None, best_score |-> IntCell(0)])

\* str.replace(" ", "_")
RECURSIVE ReplaceSpaces(_)
ReplaceSpaces(name) ==
    IF Len(name) = 0 THEN ""
    ELSE (IF SubSeq(name, 1, 1) = " " THEN "_" ELSE SubSeq(name, 1, 1))
         \o ReplaceSpaces(SubSeq(name, 2, Len(name)))

\* f'../models/best_model_{best_model.replace(" ", "_")}.pkl', under models/
SavedModelFile(best_model) == "best_model_" \o ReplaceSpaces(best_model) \o ".pkl"

\* the file load_models looks for under models/
model_path == "best_model_Logistic_Regression.pkl"

\* risk_level = 'High' if probability > 0.7 else 'Medium' if probability > 0.3
\* else 'Low'
risk_level(probability) ==
    IF RLt(Num(7, 10), probability) THEN "High"
    ELSE IF RLt(Num(3, 10), probability) THEN "Medium"
    ELSE "Low"

get_recommendation(probability) ==
    IF RLt(Num(7, 10), probability)
    THEN "Immediate intervention required: Offer contract upgrade with 20% discount"
    ELSE IF RLt(Num(5, 10), probability)
    THEN "Proactive engagement needed: Bundle services with loyalty rewards"
    ELSE IF RLt(Num(3, 10), probability)
    THEN "Monitor closely: Send satisfaction survey and personalized offers"
    ELSE "Low risk: Focus on upselling additional services"

\* "for col, le in label_encoders.items(): if col in customer_data:
\* customer_data[col] = le.transform([customer_data[col]])[0]" from encoder i on:
\* the caller's object is assigned to column by column, and a value that is no
\* class of le raises with the earlier columns already replaced
RECURSIVE EncodeInPlace(_, _, _)
EncodeInPlace(label_encoders, cd, i) ==
    IF i > Len(label_encoders) THEN [raised |-> FALSE, customer_data |-> cd]
    ELSE LET col     == label_encoders[i][1]
             classes == label_encoders[i][2]
         IN  IF ~Has(cd, col) THEN EncodeInPlace(label_encoders, cd, i + 1)
             ELSE IF \/ ~IsStr(Get(cd, col))
                     \/ LabelEncoderTransform(classes, Get(cd, col).s) = ValueError
             THEN [raised |-> TRUE, customer_data |-> cd]
             ELSE CHOOSE r \in
                    {EncodeInPlace(label_encoders, c2, i + 1) : c2 \in
                       {SetCol(cd, col,
                               IntCell(LabelEncoderTransform(classes, Get(cd, col).s)))}} :
                    TRUE

\* what a predict_churn call that raised leaves behind
Raised(cd) ==
    [status |-> "raised", customer_data |-> cd, churn_probability |-> NoneCell,
     risk_level |-> "", recommended_action |-> ""]

\* a cell the scaler or the classifier cannot read as a number
NotNumeric(cd) == \E i \in 1..Len(cd) : cd[i][2].k # "num"

\* predict_churn with the encoders under a name of their own
predict_churn_CopiesInput(best_model, cd) ==
    LET enc == CHOOSE e \in {EncodeInPlace(training_label_encoders, cd, 1)} : TRUE
        row == Values(enc.customer_data)
    IN  IF enc.raised \/ NotNumeric(enc.customer_data) \/ ClassifierRaises("lr61", row)
        THEN Raised(cd)
        ELSE CHOOSE o \in
               {[status |-> "returned", customer_data |-> cd,
                 churn_probability |-> probability,
                 risk_level |-> risk_level(probability),
                 recommended_action |-> get_recommendation(probability)] :
                  probability \in
                    {PredictProba("lr61", IF best_model \in scaled_models
                                          THEN ScalerTransform("scaler61", row)
                                          ELSE row)}} : TRUE

\* predict_churn(customer_data) after a run that chose best_model: the returned
\* dict, or the exception, and the caller's customer_data after the call
predict_churn(best_model, cd) ==
    LET enc == CHOOSE e \in {EncodeInPlace(training_label_encoders, cd, 1)} : TRUE
        row == Values(enc.customer_data)
    IN  IF enc.raised \/ NotNumeric(enc.customer_data) \/ ClassifierRaises("lr61", row)
        THEN Raised(enc.customer_data)
        ELSE CHOOSE o \in
               {[status |-> "returned", customer_data |-> enc.customer_data,
                 churn_probability |-> probability,
                 risk_level |-> risk_level(probability),
                 recommended_action |-> get_recommendation(probability)] :
                  probability \in
                    {PredictProba("lr61", IF best_model \in scaled_models
                                          THEN ScalerTransform("scaler61", row)
                                          ELSE row)}} : TRUE


NoPage == [view |-> "none", proba |-> NoneCell, label |-> ""]

\* the deployments the methods are exercised under: no model, no scaler, any
\* label encoders file
TransformDisks == {d \in Disks : d.model = "absent" /\ d.scaler = "absent"}

InitTransform ==
    /\ disk \in TransformDisks
    /\ predictor = ChurnPredictor(disk)
    /\ customer_data \in Records
    /\ engineered = NoEngineer
    /\ features = NoFeatures
    /\ model_input = NoModelInput
    /\ result = NoResult
    /\ page = NoPage
    /\ first_engineered = NoEngineer
    /\ history = "none"
    /\ batch_df = NoBatch
    /\ loads = 1
    /\ training = NoTraining

\* predictor.engineer_features(customer_data)
EngineerFeatures ==
    /\ engineered' = [arg |-> customer_data] @@ engineer_features(customer_data)
    /\ customer_data' = DictAfterEngineer(customer_data)
    /\ first_engineered' = IF first_engineered.status = "none" THEN engineered'
                           ELSE first_engineered
    /\ history' = IF history = "none" THEN "first"
                  ELSE IF history = "other" THEN "again"
                  ELSE history
    /\ features' = NoFeatures
    /\ UNCHANGED <<disk, predictor, model_input, result, page, batch_df, loads, training>>

\* another caller's predictor.engineer_features(r), between two calls on customer_data
EngineerOther ==
    \E r \in OtherRecords :
        /\ engineered' = [arg |-> r] @@ engineer_features(r)
        /\ features' = NoFeatures
        /\ history' = IF history = "first" THEN "other" ELSE history
        /\ UNCHANGED <<disk, predictor, customer_data, model_input, result, page,
                       first_engineered, batch_df, loads, training>>

\* predictor.prepare_features_for_model(df), df the frame engineer_features returned
PrepareFeatures ==
    /\ engineered.status = "ok"
    /\ features' = [status |-> "ok",
                    df |-> prepare_features_for_model(predictor.label_encoders,
                                                      engineered.df)]
    /\ UNCHANGED <<disk, predictor, customer_data, engineered, model_input, result,
                   page, first_engineered, history, batch_df, loads, training>>

\* one run of the feature engineering script on the data set customer_data,
\* others: the row computed for customer_data, and the one of the first run
RunScript(others) ==
    /\ DatasetRow(customer_data)
    /\ \E row \in {BatchFeatures(customer_data, others)} :
          batch_df' = [status |-> "ok", arg |-> customer_data, others |-> others,
                       df |-> row,
                       first |-> IF batch_df.status = "none" THEN row ELSE batch_df.first]
    /\ UNCHANGED <<disk, predictor, customer_data, engineered, features, model_input,
                   result, page, first_engineered, history, loads, training>>

\* the feature engineering script run on a data set of the one row customer_data
FeatureEngineeringScript == RunScript(<<>>)

NextTransform ==
    EngineerFeatures \/ EngineerOther \/ PrepareFeatures \/ FeatureEngineeringScript

SpecTransform == InitTransform /\ [][NextTransform]_vars

---------------------------------------------------------------------------
(* The feature engineering script on data sets of several rows, beside the *)
(* dashboard's engineer_features on the same record.                       *)

\* the attributes the rows of the data sets differ in, and their values
DatasetEdits ==
    {<<"tenure", IntCell(0)>>, <<"tenure", IntCell(6)>>, <<"tenure", IntCell(30)>>,
     <<"MonthlyCharges", Dec(3000)>>, <<"MonthlyCharges", Dec(7500)>>,
     <<"MonthlyCharges", Dec(11000)>>, <<"TotalCharges", Dec(100000)>>,
     <<"OnlineSecurity", Str("Yes")>>, <<"OnlineBackup", Str("Yes")>>,
     <<"PaperlessBilling", Str("No")>>, <<"PaymentMethod", Str("Mailed check")>>,
     <<"PaymentMethod", Str("Credit card (automatic)")>>,
     <<"Contract", Str("Month-to-month")>>, <<"Contract", Str("Two year")>>,
     <<"InternetService", Str("DSL")>>, <<"StreamingTV", Str("Yes")>>}

\* rows of the data set: all attributes, values of the training data
DatasetRows ==
    {ExampleRecord, LoyalRecord, PhoneOnlyRecord}
    \cup {SetCol(b, e[1], e[2]) : <<b, e>> \in
             {ExampleRecord, LoyalRecord, PhoneOnlyRecord} \X DatasetEdits}

\* the most rows a data set has beside customer_data
MaxOthers == 2

\* the rows the data sets hold beside customer_data, in file order
OtherRowPool ==
    <<LoyalRecord, PhoneOnlyRecord, ExampleRecord,
      SetCol(LoyalRecord, "MonthlyCharges", Dec(4000))>>

OtherRowSets ==
    {SubSeq(OtherRowPool, 1, k) :
        k \in 0..(IF MaxOthers < Len(OtherRowPool) THEN MaxOthers ELSE Len(OtherRowPool))}

InitBatch ==
    /\ disk = [model |-> "absent", scaler |-> "absent", label_encoders |-> "absent"]
    /\ predictor = ChurnPredictor(disk)
    /\ customer_data \in DatasetRows
    /\ engineered = NoEngineer
    /\ features = NoFeatures
    /\ model_input = NoModelInput
    /\ result = NoResult
    /\ page = NoPage
    /\ first_engineered = NoEngineer
    /\ history = "none"
    /\ batch_df = NoBatch
    /\ loads = 1
    /\ training = NoTraining

\* the feature engineering script run on a data set that holds customer_data
\* and other rows
FeatureEngineeringDataset == \E others \in OtherRowSets : RunScript(others)

NextBatch == FeatureEngineeringDataset \/ EngineerFeatures \/ EngineerOther

SpecBatch == InitBatch /\ [][NextBatch]_vars

---------------------------------------------------------------------------
(* The dashboard process: main runs once per user interaction.             *)

Init ==
    /\ disk \in Disks
    /\ predictor = ChurnPredictor(disk)
    /\ customer_data \in PredictRecords
    /\ engineered = NoEngineer
    /\ features = NoFeatures
    /\ model_input = NoModelInput
    /\ result = NoResult
    /\ page = NoPage
    /\ first_engineered = NoEngineer
    /\ history = "none"
    /\ batch_df = NoBatch
    /\ loads = 1
    /\ training = NoTraining

\* the most page runs (executions of main) of one process
MaxLoads == 3

\* a caller builds another record
NewInput ==
    \E r \in PredictRecords :
        /\ customer_data' = r
        /\ engineered' = NoEngineer
        /\ features' = NoFeatures
        /\ model_input' = NoModelInput
        /\ result' = NoResult
        /\ UNCHANGED <<disk, predictor, page, first_engineered, history, batch_df, loads, training>>

\* predictor.predict(customer_data)
Predict ==
    \E o \in {predict(predictor, customer_data)} :
        /\ engineered' = o.engineered
        /\ features' = o.features
        /\ model_input' = o.model_input
        /\ result' = o.result
        /\ predictor' = SelfAfterPredict(predictor)
        /\ UNCHANGED <<disk, customer_data, page, first_engineered, history, batch_df, loads, training>>

\* what render_prediction_tool shows once the button is pressed
Rendered(self, o) ==
    IF self.model # None
    THEN IF o.result.proba # NoneCell
         THEN [view |-> "results", proba |-> o.result.proba, label |-> o.result.label]
         ELSE [view |-> "Prediction failed", proba |-> NoneCell, label |-> o.result.label]
    ELSE [view |-> "Model not loaded", proba |-> NoneCell, label |-> ""]

\* main() with the prediction page selected and the button pressed: a new
\* ChurnPredictor, then render_prediction_tool with the form's record
MainPredictionPage ==
    \E r \in FormRecords :
        \E self \in {ChurnPredictor(disk)} :
        \E o \in {IF self.model # None THEN predict(self, r)
                  ELSE Outcome(NoEngineer, NoFeatures, NoModelInput, NoResult)} :
            /\ loads < MaxLoads
            /\ loads' = loads + 1
            /\ predictor' = IF self.model # None THEN SelfAfterPredict(self) ELSE self
            /\ customer_data' = r
            /\ engineered' = o.engineered
            /\ features' = o.features
            /\ model_input' = o.model_input
            /\ result' = o.result
            /\ page' = Rendered(self, o)
            /\ UNCHANGED <<disk, first_engineered, history, batch_df, training>>

\* main() for any other page, or without the button pressed
MainOtherPage ==
    /\ loads < MaxLoads
    /\ loads' = loads + 1
    /\ predictor' = ChurnPredictor(disk)
    /\ page' = NoPage
    /\ engineered' = NoEngineer
    /\ features' = NoFeatures
    /\ model_input' = NoModelInput
    /\ result' = NoResult
    /\ UNCHANGED <<disk, customer_data, first_engineered, history, batch_df, training>>

Next == NewInput \/ Predict \/ MainPredictionPage \/ MainOtherPage

Spec == Init /\ [][Next]_vars

---------------------------------------------------------------------------
(* The pipeline: the feature engineering script, the modeling script, the  *)
(* predict_churn function it defines, and the dashboard started after it.  *)

\* the AUC a model reaches on the test split, and the tables of the five
AucValues == {Dec(80), Dec(85)}

AucTables == [1..Len(models) -> AucValues]

\* the names the script maps the clusters 0..5 to
segment_names ==
    <<"Digital Natives", "Value Seekers", "Premium Loyalists", "Basic Users",
      "Growth Potentials", "Flight Risks">>

\* the clusters the rows handed to predict_churn lie in
SegmentInputs == {0, 5}

\* the row with the cluster k and its name
WithSegment(row, k) ==
    SetCol(SetCol(row, "DataSegment", IntCell(k)), "SegmentName", Str(segment_names[k + 1]))

\* what predict_churn is called with: the customer's row of the feature matrix
\* before encoding, or the raw record
CallerRows ==
    {WithSegment(X_matrix(batch_df.df), k) : k \in SegmentInputs} \cup {batch_df.arg}

\* the most predict_churn calls on one customer_data object
MaxCalls == 2

\* 03_ml_modeling.py on the engineered data set: the encoded matrix (the row of
\* customer_data), the best model, and the three files under models/
ModelingScript ==
    /\ batch_df.status = "ok"
    /\ training.status = "none"
    /\ \E auc \in AucTables :
       \E best \in {BestModel(auc)} :
          /\ training' = [status |-> "done", best_model |-> best.best_model,
                          best_score |-> best.best_score,
                          file |-> SavedModelFile(best.best_model),
                          X |-> EncodedRow(X_matrix(batch_df.df)),
                          customer_data |-> <<>>, original |-> <<>>, calls |-> <<>>]
          /\ disk' = [model |-> IF SavedModelFile(best.best_model) = model_path
                                THEN "lr61" ELSE disk.model,
                      scaler |-> "scaler61",
                      label_encoders |-> "full"]
    /\ UNCHANGED <<predictor, customer_data, engineered, features, model_input, result,
                   page, first_engineered, history, batch_df, loads>>

\* predict_churn(customer_data): the first call on a row of the caller, a later
\* one on the same object
PredictChurn ==
    /\ training.status = "done"
    /\ Len(training.calls) < MaxCalls
    /\ \E cd \in (IF training.calls = <<>> THEN CallerRows ELSE {training.customer_data}) :
       \E o \in {predict_churn(training.best_model, cd)} :
          training' = [training EXCEPT
                          !.customer_data = o.customer_data,
                          !.original = IF training.calls = <<>> THEN cd ELSE @,
                          !.calls = Append(@, [status |-> o.status,
                                               churn_probability |-> o.churn_probability,
                                               risk_level |-> o.risk_level,
                                               recommended_action |-> o.recommended_action])]
    /\ UNCHANGED <<disk, predictor, customer_data, engineered, features, model_input,
                   result, page, first_engineered, history, batch_df, loads>>

\* the customers the pipeline is followed for: every tenure segment, and the
\* tenure 0 that falls in none
TrainingRows ==
    {ExampleRecord, LoyalRecord, PhoneOnlyRecord}
    \cup {SetCol(ExampleRecord, "tenure", IntCell(t)) : t \in {0, 6, 18, 30}}
    \cup {SetCol(LoyalRecord, "Contract", Str("Month-to-month")),
          SetCol(PhoneOnlyRecord, "PaymentMethod", Str("Electronic check"))}

InitTraining ==
    /\ disk = [model |-> "absent", scaler |-> "absent", label_encoders |-> "absent"]
    /\ predictor = ChurnPredictor(disk)
    /\ customer_data \in TrainingRows
    /\ engineered = NoEngineer
    /\ features = NoFeatures
    /\ model_input = NoModelInput
    /\ result = NoResult
    /\ page = NoPage
    /\ first_engineered = NoEngineer
    /\ history = "none"
    /\ batch_df = NoBatch
    /\ loads = 1
    /\ training = NoTraining

\* the feature engineering script, run once on the data set
FeatureEngineeringRun ==
    /\ batch_df.status = "none"
    /\ FeatureEngineeringDataset

NextTraining ==
    \/ FeatureEngineeringRun
    \/ ModelingScript
    \/ PredictChurn
    \/ EngineerFeatures
    \/ MainOtherPage

SpecTraining == InitTraining /\ [][NextTraining]_vars

---------------------------------------------------------------------------
(* Properties of engineer_features (checked under SpecTransform).          *)

\* the last engineer_features call returned a frame
Engineered == engineered.status = "ok"

\* attribute f of the record passed to the last call is the string v
ArgIs(f, v) == Has(engineered.arg, f) /\ EqStr(Get(engineered.arg, f), v)

\* column c of the returned frame
Col(c) == Get(engineered.df, c)

ProtectionSet == {"OnlineSecurity", "OnlineBackup", "DeviceProtection", "TechSupport"}

KnownContracts == {"Month-to-month", "One year", "Two year"}

KnownPaymentMethods ==
    {"Electronic check", "Mailed check", "Bank transfer (automatic)",
     "Credit card (automatic)"}

\* the record of the last call has Contract = 'Month-to-month', PaymentMethod =
\* 'Electronic check', an InternetService other than 'No' and no protection
\* service equal to 'Yes'
ExampleCase ==
    /\ ArgIs("Contract", "Month-to-month")
    /\ ArgIs("PaymentMethod", "Electronic check")
    /\ Has(engineered.arg, "InternetService") /\ ~ArgIs("InternetService", "No")
    /\ \A svc \in ProtectionSet : ~ArgIs(svc, "Yes")

\* C1: for every record with Contract = 'Month-to-month', PaymentMethod =
\* 'Electronic check', InternetService other than 'No' and no protection service
\* equal to 'Yes', engineer_features yields IsMonthToMonth = 1, IsElectronicCheck
\* = 1, ProtectionScore = 0, NoProtection = 1, ServiceVulnerability = 1 and
\* FinancialRiskScore = 0.427 + 0.453 + 0.12 = 1, whatever the other fields are.
C1_EndToEndExample ==
    (Engineered /\ ExampleCase) =>
        /\ Col("IsMonthToMonth") = IntCell(1)
        /\ Col("IsElectronicCheck") = IntCell(1)
        /\ Col("ProtectionScore") = IntCell(0)
        /\ Col("NoProtection") = IntCell(1)
        /\ Col("ServiceVulnerability") = IntCell(1)
        /\ Col("FinancialRiskScore") = IntCell(1)
        /\ Col("FinancialRiskScore")
             = RAdd(RAdd(Num(427, 1000), Num(453, 1000)), Num(12, 100))

\* the case of C1 on a record that differs from the example in another field
C1_Witness ==
    /\ Engineered /\ ExampleCase
    /\ engineered.arg # ExampleRecord
    /\ Get(engineered.arg, "tenure") = IntCell(100)
    /\ Col("FinancialRiskScore") = IntCell(1)

\* the script has computed its row
Batched == batch_df.status = "ok"

\* attribute f of the script's input row is the string v
RowIs(f, v) == EqStr(Get(batch_df.arg, f), v)

\* column c of the script's row
BatchCol(c) == Get(batch_df.df, c)

\* the number of protection services the script's input row has at 'Yes'
BatchYesCount == Cardinality({svc \in ProtectionSet : RowIs(svc, "Yes")})

\* the number of protection services the record of the last call has at 'Yes'
YesCount == Cardinality({svc \in ProtectionSet : ArgIs(svc, "Yes")})

\* C2: ProtectionScore is the number of the four protection services whose value
\* is 'Yes', so it is in {0,1,2,3,4}; FullyProtected = 1 exactly when
\* ProtectionScore = 4 and NoProtection = 1 exactly when ProtectionScore = 0, so
\* the two flags are never both 1.  This holds of the frame engineer_features
\* returns and of the row the feature engineering script computes.
C2_ProtectionScore ==
    /\ Engineered =>
        /\ Col("ProtectionScore") = IntCell(YesCount)
        /\ Col("ProtectionScore") \in {IntCell(i) : i \in 0..4}
        /\ Col("FullyProtected") \in {IntCell(0), IntCell(1)}
        /\ Col("NoProtection") \in {IntCell(0), IntCell(1)}
        /\ (Col("FullyProtected") = IntCell(1)) <=> (Col("ProtectionScore") = IntCell(4))
        /\ (Col("NoProtection") = IntCell(1)) <=> (Col("ProtectionScore") = IntCell(0))
        /\ ~(Col("FullyProtected") = IntCell(1) /\ Col("NoProtection") = IntCell(1))
    /\ Batched =>
        /\ BatchCol("ProtectionScore") = IntCell(BatchYesCount)
        /\ BatchCol("ProtectionScore") \in {IntCell(i) : i \in 0..4}
        /\ (BatchCol("FullyProtected") = IntCell(1))
              <=> (BatchCol("ProtectionScore") = IntCell(4))
        /\ (BatchCol("NoProtection") = IntCell(1))
              <=> (BatchCol("ProtectionScore") = IntCell(0))
        /\ ~(BatchCol("FullyProtected") = IntCell(1) /\ BatchCol("NoProtection") = IntCell(1))

\* a record with three of the four services, neither flag set, in the dashboard
\* and in the script
C2_Witness ==
    /\ Engineered
    /\ YesCount = 3
    /\ Col("ProtectionScore") = IntCell(3)
    /\ Col("FullyProtected") = IntCell(0)
    /\ Col("NoProtection") = IntCell(0)
    /\ Batched
    /\ BatchCol("ProtectionScore") = IntCell(3)
    /\ BatchCol("FullyProtected") = IntCell(0)

\* C3: a two-year contract yields ContractStability = 1 and IsMonthToMonth = 0;
\* ContractStability is 0, 0.5, 1 for month-to-month, one-year, two-year, and
\* IsMonthToMonth = 1 exactly when the contract is month-to-month.
\* This holds of engineer_features and of the feature engineering script.
C3_ContractStability ==
    /\ Engineered =>
        /\ ArgIs("Contract", "Two year") =>
              (Col("ContractStability") = IntCell(1) /\ Col("IsMonthToMonth") = IntCell(0))
        /\ ArgIs("Contract", "One year") => Col("ContractStability") = Num(1, 2)
        /\ ArgIs("Contract", "Month-to-month") => Col("ContractStability") = IntCell(0)
        /\ (Col("IsMonthToMonth") = IntCell(1)) <=> ArgIs("Contract", "Month-to-month")
        /\ Col("IsMonthToMonth") \in {IntCell(0), IntCell(1)}
    /\ Batched =>
        /\ RowIs("Contract", "Two year") =>
              /\ BatchCol("ContractStability") = IntCell(1)
              /\ BatchCol("IsMonthToMonth") = IntCell(0)
        /\ RowIs("Contract", "One year") => BatchCol("ContractStability") = Num(1, 2)
        /\ RowIs("Contract", "Month-to-month") => BatchCol("ContractStability") = IntCell(0)
        /\ (BatchCol("IsMonthToMonth") = IntCell(1)) <=> RowIs("Contract", "Month-to-month")

\* a two-year record that is not the base record, in the dashboard and in the script
C3_Witness ==
    /\ Engineered
    /\ ArgIs("Contract", "Two year")
    /\ engineered.arg # LoyalRecord
    /\ Col("ContractStability") = IntCell(1)
    /\ Col("IsMonthToMonth") = IntCell(0)
    /\ Batched
    /\ RowIs("Contract", "Two year")
    /\ BatchCol("ContractStability") = IntCell(1)

\* the record of the last call has every attribute engineer_features reads unguarded
ArgHasRequired == \A f \in Required : Has(engineered.arg, f)

\* attribute f of the record of the last call is none of the strings in known
ArgOutside(f, known) ==
    Has(engineered.arg, f) /\ ~\E v \in known : ArgIs(f, v)

\* C4: a PaymentMethod that is none of the four known methods (e.g. 'Crypto')
\* does not make engineer_features raise and yields PaymentStability = 0 and
\* IsElectronicCheck = 0; a Contract outside the three known types yields
\* ContractStability = 0 without raising.
C4_UnknownCategory ==
    (engineered.status # "none" /\ ArgHasRequired) =>
        /\ ArgOutside("PaymentMethod", KnownPaymentMethods) =>
              /\ Engineered
              /\ Col("PaymentStability") = IntCell(0)
              /\ Col("IsElectronicCheck") = IntCell(0)
        /\ ArgOutside("Contract", KnownContracts) =>
              /\ Engineered
              /\ Col("ContractStability") = IntCell(0)

\* the call with PaymentMethod = 'Crypto' has returned
C4_Witness ==
    /\ Engineered
    /\ ArgIs("PaymentMethod", "Crypto")
    /\ Col("PaymentStability") = IntCell(0)
    /\ Col("IsElectronicCheck") = IntCell(0)

---------------------------------------------------------------------------
(* Properties of prepare_features_for_model (checked under SpecTransform). *)

\* the last prepare_features_for_model call returned a row
Prepared == features.status = "ok"

CategoricalSet == {categorical_cols[i] : i \in 1..Len(categorical_cols)}

\* the categorical columns of the engineered frame the predictor has a fitted table for
FittedColumns ==
    {col \in CategoricalSet :
        Has(predictor.label_encoders, col) /\ Has(engineered.df, col)}

\* the string the fitted table of col is asked about
Label(col) ==
    LET x == Get(engineered.df, col) IN IF IsStr(x) THEN x.s ELSE "numeric"

\* the positions of the engineered value of col in the fitted table of col
SeenAt(col) ==
    LET classes == Get(predictor.label_encoders, col)
    IN  {i \in 1..Len(classes) : classes[i] = Label(col)}

KeptColumns ==
    SelectSeq(Columns(engineered.df), LAMBDA c : c \notin {"customerID", "Churn"})

\* position j of the returned row is the engineered column c, its value kept (a
\* categorical column holds its integer code)
KeepsColumn(j, c) ==
    /\ features.df[j][1] = c
    /\ c \notin CategoricalSet => features.df[j][2] = Get(engineered.df, c)
    /\ c \in CategoricalSet =>
          /\ features.df[j][2].k = "num" /\ features.df[j][2].d = 1
          /\ features.df[j][2].n \in 0..3

\* C6: prepare_features_for_model returns a row with exactly 61 columns, never
\* containing customerID or Churn: with fewer than 61 feature columns the
\* existing ones keep their order and values and zero-valued placeholder columns
\* are appended up to 61; with more than 61 only the first 61 are returned.
C6_SixtyOneColumns ==
    Prepared =>
        /\ Len(features.df) = 61
        /\ \A j \in 1..Len(features.df) : features.df[j][1] \notin {"customerID", "Churn"}
        /\ \A j \in 1..Len(features.df) :
              IF j <= Len(KeptColumns) THEN KeepsColumn(j, KeptColumns[j])
              ELSE /\ features.df[j][1] = "feature_" \o ToString(j - 1)
                   /\ features.df[j][2] = IntCell(0)

\* a record with fewer than 61 feature columns: placeholders follow the
\* engineered columns
C6_Witness ==
    /\ Prepared
    /\ Len(KeptColumns) = 51
    /\ features.df[51][1] = "SegmentName"
    /\ features.df[52] = <<"feature_51", IntCell(0)>>
    /\ features.df[61] = <<"feature_60", IntCell(0)>>

\* a record with more than 61: the last engineered columns are cut
C6_WitnessTruncated ==
    /\ Prepared
    /\ Len(KeptColumns) = 63
    /\ Len(features.df) = 61
    /\ features.df[61][1] = KeptColumns[61]
    /\ ~Has(features.df, "SegmentName")

---------------------------------------------------------------------------
(* Properties of predict and the prediction page (checked under Spec).     *)

\* C7: when no model artifact was loaded (model is None), predict returns
\* (None, 'Model not loaded') without running feature engineering or the
\* classifier and without raising, and the prediction page reports that the
\* model is not loaded: it shows no probability and no failure.
C7_ModelNotLoaded ==
    predictor.model = None =>
        /\ result.status = "returned" =>
              /\ result = Return(NoneCell, "Model not loaded")
              /\ engineered = NoEngineer
              /\ features = NoFeatures
              /\ model_input = NoModelInput
        /\ page.view # "none" =>
              /\ page.view = "Model not loaded"
              /\ page.proba = NoneCell
              /\ result # Return(NoneCell, "Model not loaded") => result = NoResult

\* predict has returned on a predictor without a model, after the page was shown,
\* for a record it could otherwise score
C7_Witness ==
    /\ predictor.model = None
    /\ disk.model = "corrupt"
    /\ customer_data = ExampleRecord
    /\ result = Return(NoneCell, "Model not loaded")
    /\ engineered = NoEngineer
    /\ page.view = "Model not loaded"

\* the last predict called a scaler's transform and it raised
ScalerFailed == model_input.scaler = "failed"

\* the feature row of the last predict, as an array
UnscaledRow == [i \in 1..Len(features.df) |-> features.df[i][2]]

\* the classifier accepts an array of this width
ClassifierAccepts(X) ==
    \/ predictor.model = "lr61" /\ Len(X) = 61
    \/ predictor.model = "lr45" /\ Len(X) = 45

\* C8: when a scaler is loaded and its transform fails on the feature row,
\* predict passes the unscaled feature row to the classifier and returns the
\* classifier's probability with its risk category; an error result, if any, is
\* the classifier's own, never the scaler's failure.
C8_ScalerFailure ==
    ScalerFailed =>
        /\ predictor.scaler # None
        /\ model_input.X = UnscaledRow
        /\ result.status = "returned"
        /\ ClassifierAccepts(UnscaledRow) =>
              /\ result.proba = PredictProba(predictor.model, UnscaledRow)
              /\ result.label = RiskLabel(result.proba)
              /\ result.label \in {"High", "Medium", "Low"}
        /\ ~ClassifierAccepts(UnscaledRow) =>
              result = ErrorReturn("X has a different number of features")

\* a scaler of another width beside a model of the row's width: a probability
\* is returned
C8_Witness ==
    /\ ScalerFailed
    /\ predictor.scaler = "scaler45"
    /\ predictor.model = "lr61"
    /\ result.proba # NoneCell
    /\ result.label = "High"
    /\ model_input.X = UnscaledRow

---------------------------------------------------------------------------
(* Missing attributes and repeated calls (checked under SpecTransform).    *)

\* engineer_features was called and raised KeyError
Failed == engineered.status = "KeyError"

\* the attributes of the schema the record of the last call lacks
MissingAttributes == {f \in Schema : ~Has(engineered.arg, f)}

\* the attributes engineer_features reads without a guard, in the order of its
\* first read of each
ReadOrder ==
    <<"Contract", "PaymentMethod", "tenure", "MonthlyCharges", "TotalCharges",
      "TechSupport", "OnlineSecurity", "OnlineBackup", "InternetService">>

\* the positions in ReadOrder of the attributes the record lacks
MissingReads == {i \in 1..Len(ReadOrder) : ~Has(engineered.arg, ReadOrder[i])}

\* C9 as stated: for every attribute of the input record schema, a record that
\* lacks it makes engineer_features fail with an error naming a missing
\* attribute; no frame is returned for a record with a missing attribute.
C9_AnyMissingAttributeFails ==
    (engineered.status # "none" /\ MissingAttributes # {}) =>
        /\ Failed
        /\ engineered.key \in MissingAttributes

\* C9: engineer_features fails on a record that lacks one of the nine attributes
\* it reads without a guard (Contract, PaymentMethod, tenure, MonthlyCharges,
\* TotalCharges, TechSupport, OnlineSecurity, OnlineBackup, InternetService), with
\* a KeyError naming the first of them in read order that is missing; a record
\* that lacks only other attributes of the schema gets a frame, in which the
\* missing attribute has no column and a missing service counts as not subscribed.
C9_UnguardedAttributeFails ==
    engineered.status # "none" =>
        /\ MissingReads # {} =>
              /\ Failed
              /\ \E i \in MissingReads :
                    /\ engineered.key = ReadOrder[i]
                    /\ \A j \in MissingReads : i <= j
        /\ MissingReads = {} =>
              /\ Engineered
              /\ \A f \in MissingAttributes : ~Has(engineered.df, f)
              /\ Col("ProtectionScore") = IntCell(YesCount)

\* two unguarded attributes missing: the error names the one read first
C9_Witness ==
    /\ Failed
    /\ MissingAttributes = {"PaymentMethod", "TotalCharges"}
    /\ engineered.key = "PaymentMethod"

\* a frame returned for a record without DeviceProtection
C9_WitnessTolerated ==
    /\ Engineered
    /\ MissingAttributes = {"DeviceProtection"}
    /\ Col("ProtectionScore") = IntCell(0)

---------------------------------------------------------------------------
(* C11: which fields depend on the record alone.                           *)

\* the columns the script computes from the whole data set: a group median, a
\* quantile, the mean and the deviation, and ranks
DatasetWideColumns ==
    {"PriceDeviation", "IsPriceSensitive", "VulnerableHighValue",
     "MonthlyCharges_ZScore", "TotalCharges_ZScore", "ChargesPercentile",
     "TenurePercentile"}

\* the columns of the script's row
BatchColumns == {batch_df.df[i][1] : i \in 1..Len(batch_df.df)}

\* (value of attribute f of the record of the last call - mean) / std
FixedZScore(f, mean, std) == RDiv(RSub(Get(engineered.arg, f), mean), std)

\* the script's run on customer_data gave every column the value of its first run
SameAsFirstRun == batch_df.df = batch_df.first

---------------------------------------------------------------------------
(* C12: how often the artifacts are loaded.                                *)

\* C12: across the page runs of one process the artifacts are loaded once, at
\* the construction of the predictor, and that predictor serves every later
\* prediction: no later page run loads them again.
C12_LoadedOnce == loads = 1

---------------------------------------------------------------------------
(* C13: predictions leave the predictor as it was constructed.             *)

---------------------------------------------------------------------------
(* C14: the risk category ladder of engineer_features.                     *)

\* x <= y, over the least common denominator
LeCommon(x, y) ==
    LET l == LCM(x.d, y.d) IN x.n * (l \div x.d) <= y.n * (l \div y.d)

\* the category the ladder gives a composite score
LadderCategory(score) ==
    CHOOSE c \in 0..2 :
        /\ c = 0 <=> RLt(score, Num(33, 100))
        /\ c = 1 <=> RLe(Num(33, 100), score) /\ RLt(score, Num(66, 100))
        /\ c = 2 <=> RLe(Num(66, 100), score)

\* C14: engineer_features sets RiskCategory to 0 when ChurnRiskScore < 0.33, to 1
\* when 0.33 <= ChurnRiskScore < 0.66 and to 2 otherwise; every score gets
\* exactly one category, and of two frames the one with the higher score never
\* has the lower category.
C14_RiskCategoryLadder ==
    Engineered =>
        /\ Col("RiskCategory") \in {IntCell(0), IntCell(1), IntCell(2)}
        /\ RLt(Col("ChurnRiskScore"), Num(33, 100)) => Col("RiskCategory") = IntCell(0)
        /\ (RLe(Num(33, 100), Col("ChurnRiskScore")) /\ RLt(Col("ChurnRiskScore"), Num(66, 100)))
              => Col("RiskCategory") = IntCell(1)
        /\ RLe(Num(66, 100), Col("ChurnRiskScore")) => Col("RiskCategory") = IntCell(2)
        /\ Col("RiskCategory") = IntCell(LadderCategory(Col("ChurnRiskScore")))
        /\ first_engineered.status = "ok" =>
              /\ LeCommon(Get(first_engineered.df, "ChurnRiskScore"), Col("ChurnRiskScore"))
                    => RLe(Get(first_engineered.df, "RiskCategory"), Col("RiskCategory"))
              /\ LeCommon(Col("ChurnRiskScore"), Get(first_engineered.df, "ChurnRiskScore"))
                    => RLe(Col("RiskCategory"), Get(first_engineered.df, "RiskCategory"))

\* a frame of category 0 after a frame of category 2 with a higher score
C14_Witness ==
    /\ Engineered
    /\ first_engineered.status = "ok"
    /\ Get(first_engineered.df, "RiskCategory") = IntCell(2)
    /\ Col("RiskCategory") = IntCell(0)
    /\ RLt(Col("ChurnRiskScore"), Num(33, 100))
    /\ RLe(Num(66, 100), Get(first_engineered.df, "ChurnRiskScore"))

\* a frame of the middle category
C14_WitnessMedium ==
    /\ Engineered
    /\ Col("RiskCategory") = IntCell(1)
    /\ RLe(Num(33, 100), Col("ChurnRiskScore"))
    /\ RLt(Col("ChurnRiskScore"), Num(66, 100))

---------------------------------------------------------------------------
(* C15: the static encoding of prepare_features_for_model.                 *)

\* the categorical columns of the engineered frame the predictor has no fitted
\* table for
StaticColumns ==
    {col \in CategoricalSet :
        ~Has(predictor.label_encoders, col) /\ Has(engineered.df, col)}

\* the engineered value of col is the string v
ValueIs(col, v) == EqStr(Get(engineered.df, col), v)

\* the static code of the engineered value of col
StaticCode(col) ==
    IF col = "gender" THEN IF ValueIs(col, "Female") THEN 1 ELSE 0
    ELSE IF col \in {"Partner", "Dependents", "PhoneService", "PaperlessBilling"}
    THEN IF ValueIs(col, "Yes") THEN 1 ELSE 0
    ELSE IF col = "Contract"
    THEN IF ValueIs(col, "One year") THEN 1 ELSE IF ValueIs(col, "Two year") THEN 2 ELSE 0
    ELSE IF col = "PaymentMethod"
    THEN IF ValueIs(col, "Mailed check") THEN 1
         ELSE IF ValueIs(col, "Bank transfer (automatic)") THEN 2
         ELSE IF ValueIs(col, "Credit card (automatic)") THEN 3
         ELSE 0
    ELSE IF ValueIs(col, "Yes") THEN 2
         ELSE IF ValueIs(col, "No internet service") \/ ValueIs(col, "No phone service")
         THEN 1
         ELSE 0

\* C15: for a categorical attribute without a fitted table
\* prepare_features_for_model encodes from the static mapping: gender (Female 1,
\* else 0), the Yes/No flags (Yes 1, else 0), Contract (0, 1, 2) and
\* PaymentMethod (0 to 3) from their own tables, every remaining attribute with
\* Yes 2, No 0, 'No internet service' and 'No phone service' 1; a value outside
\* the mapping is encoded 0, and the call returns.
C15_StaticEncoding ==
    (Engineered /\ features.status # "none") =>
        /\ Prepared
        /\ \A col \in StaticColumns :
              /\ Has(features.df, col)
              /\ Get(features.df, col) = IntCell(StaticCode(col))

\* no table at all: a payment method outside the mapping coded 0 beside a
\* contract coded 2 and a service at 'Yes' coded 2
C15_Witness ==
    /\ Prepared
    /\ predictor.label_encoders = <<>>
    /\ ValueIs("PaymentMethod", "Crypto")
    /\ Get(features.df, "PaymentMethod") = IntCell(0)
    /\ Get(features.df, "Contract") = IntCell(2)
    /\ ValueIs("TechSupport", "Yes") /\ Get(features.df, "TechSupport") = IntCell(2)

\* no table at all: a service at 'No internet service' coded 1 beside an
\* internet service 'No' coded 0
C15_WitnessNoService ==
    /\ Prepared
    /\ predictor.label_encoders = <<>>
    /\ ValueIs("OnlineBackup", "No internet service")
    /\ Get(features.df, "OnlineBackup") = IntCell(1)
    /\ ValueIs("InternetService", "No")
    /\ Get(features.df, "InternetService") = IntCell(0)

---------------------------------------------------------------------------
(* C16: the fitted tables are one to one.                                  *)

\* LabelEncoder.inverse_transform: the class at position code, from 0
Decode(classes, code) ==
    IF code + 1 \in 1..Len(classes) THEN classes[code + 1] ELSE "no class"

\* the fitted tables the predictor holds
FittedTables ==
    {predictor.label_encoders[i][2] : i \in 1..Len(predictor.label_encoders)}

---------------------------------------------------------------------------
(* C17: ServiceCount.                                                      *)

EightServices ==
    {"PhoneService", "InternetService", "OnlineSecurity", "OnlineBackup",
     "DeviceProtection", "TechSupport", "StreamingTV", "StreamingMovies"}

\* the services of the eight the record r subscribes to: InternetService when its
\* value is not 'No', any other when its value is 'Yes'
SubscribedServices(r) ==
    {svc \in EightServices :
        /\ Has(r, svc)
        /\ IF svc = "InternetService" THEN ~EqStr(Get(r, svc), "No")
           ELSE EqStr(Get(r, svc), "Yes")}

\* C17: ServiceCount, in engineer_features and in the feature engineering
\* script, is the number of the eight services the record subscribes to, where
\* InternetService counts whenever it is not 'No' and every other service only
\* when it is 'Yes'; it lies between 0 and 8.
C17_ServiceCount ==
    /\ Engineered =>
          /\ Col("ServiceCount") = IntCell(Cardinality(SubscribedServices(engineered.arg)))
          /\ Col("ServiceCount").d = 1
          /\ Col("ServiceCount").n \in 0..8
    /\ Batched =>
          /\ BatchCol("ServiceCount") = IntCell(Cardinality(SubscribedServices(batch_df.arg)))
          /\ BatchCol("ServiceCount").n \in 0..8

\* all eight services, counted 8 by the dashboard and by the script
C17_Witness ==
    /\ Engineered
    /\ Batched
    /\ engineered.arg = batch_df.arg
    /\ SubscribedServices(engineered.arg) = EightServices
    /\ Col("ServiceCount") = IntCell(8)
    /\ BatchCol("ServiceCount") = IntCell(8)

\* no service at all
C17_WitnessNone ==
    /\ Engineered
    /\ SubscribedServices(engineered.arg) = {}
    /\ Col("ServiceCount") = IntCell(0)

\* an internet service 'DSL' counts as one service beside the services at 'Yes'
C17_WitnessInternet ==
    /\ Engineered
    /\ ArgIs("InternetService", "DSL")
    /\ Col("ServiceCount").n
          = Cardinality({svc \in EightServices : ArgIs(svc, "Yes")}) + 1

---------------------------------------------------------------------------
(* C18: DigitalAdoption.                                                   *)

\* the payment methods with 'automatic' in their name
AutomaticNames ==
    {"Bank transfer (automatic)", "Credit card (automatic)", "Direct debit (automatic)"}

\* the three flags of the record r that are set
DigitalFlags(r) ==
    {f \in {"PaperlessBilling", "PaymentMethod", "OnlineBackup"} :
        /\ Has(r, f)
        /\ IF f = "PaymentMethod" THEN \E m \in AutomaticNames : EqStr(Get(r, f), m)
           ELSE EqStr(Get(r, f), "Yes")}

\* the four flags of the script that are set in the row r: the automatic methods
\* are the two of the training data, and OnlineSecurity is a flag as well
ScriptDigitalFlags(r) ==
    {f \in {"PaperlessBilling", "PaymentMethod", "OnlineSecurity", "OnlineBackup"} :
        IF f = "PaymentMethod"
        THEN EqStr(Get(r, f), "Bank transfer (automatic)")
                \/ EqStr(Get(r, f), "Credit card (automatic)")
        ELSE EqStr(Get(r, f), "Yes")}

Thirds == {IntCell(0), Num(1, 3), Num(2, 3), IntCell(1)}

C18_WitnessAllThree ==
    /\ Engineered
    /\ Cardinality(DigitalFlags(engineered.arg)) = 3
    /\ Col("DigitalAdoption") = IntCell(1)

\* a payment method that only has 'automatic' in its name: a flag of the
\* dashboard
C18_WitnessDirectDebit ==
    /\ Engineered
    /\ ArgIs("PaymentMethod", "Direct debit (automatic)")
    /\ "PaymentMethod" \in DigitalFlags(engineered.arg)
    /\ Col("DigitalAdoption") \in {Num(1, 3), Num(2, 3), IntCell(1)}

---------------------------------------------------------------------------
(* C19: the two composite scores.                                          *)

\* w1 c1 + w2 c2 + w3 c3 + w4 c4 + w5 c5, the weights in hundredths
Weighted(w, c) ==
    RAdd(RAdd(RAdd(RAdd(RMul(c[1], Num(w[1], 100)), RMul(c[2], Num(w[2], 100))),
                   RMul(c[3], Num(w[3], 100))),
              RMul(c[4], Num(w[4], 100))),
         RMul(c[5], Num(w[5], 100)))

\* 1 when the record of the last call has attribute f at v, else 0
ArgFlag(f, v) == IF ArgIs(f, v) THEN 1 ELSE 0

\* the five components of the dashboard's composite, from the returned frame and
\* the record: the financial risk, the tenure risk, the service vulnerability,
\* the third of the flags month-to-month, electronic check and new customer, and
\* the share of the protection services not subscribed
DashboardComponents ==
    <<Col("FinancialRiskScore"), Col("TenureRisk"), Col("ServiceVulnerability"),
      RDiv(IntCell(ArgFlag("Contract", "Month-to-month")
                      + ArgFlag("PaymentMethod", "Electronic check")
                      + (IF RLe(Get(engineered.arg, "tenure"), IntCell(12)) THEN 1 ELSE 0)),
           IntCell(3)),
      RSub(IntCell(1), RDiv(IntCell(YesCount), IntCell(4)))>>

\* the five components of the script's composite for the same record: the first
\* three of the dashboard, the share of the script's four digital flags not set,
\* and the product of the flags month-to-month and electronic check
ScriptComponents ==
    <<Col("FinancialRiskScore"), Col("TenureRisk"), Col("ServiceVulnerability"),
      RSub(IntCell(1),
           RDiv(IntCell(Cardinality(ScriptDigitalFlags(engineered.arg))), IntCell(4))),
      IntCell(ArgFlag("Contract", "Month-to-month")
                 * ArgFlag("PaymentMethod", "Electronic check"))>>

\* the dashboard and the script have processed the same record, without NaN
SameRecordScored ==
    /\ Engineered
    /\ Batched
    /\ engineered.arg = batch_df.arg
    /\ ~IsNaN(BatchCol("ChurnRiskScore"))

\* C19 as stated: the script's ChurnRiskScore is the dashboard's composite with
\* only the weights changed: the weights 0.35/0.25/0.20/0.10/0.10 on the five
\* components the dashboard weighs with 0.30/0.20/0.20/0.15/0.15.
C19_OnlyWeightsDiffer ==
    SameRecordScored =>
        /\ Col("ChurnRiskScore") = Weighted(<<30, 20, 20, 15, 15>>, DashboardComponents)
        /\ BatchCol("ChurnRiskScore") = Weighted(<<35, 25, 20, 10, 10>>, DashboardComponents)

\* C19, amended: the two composites share three components (financial risk,
\* tenure risk, service vulnerability).  The dashboard's score weighs them 0.30,
\* 0.20, 0.20 and adds 0.15 of the three-flag average (month-to-month,
\* electronic check, new customer) and 0.15 of 1 - ProtectionScore / 4; the
\* script's score weighs them 0.35, 0.25, 0.20 and adds 0.10 of 1 - its
\* four-flag DigitalAdoption and 0.10 of the product of the flags month-to-month
\* and electronic check.
C19_SharedComponents ==
    SameRecordScored =>
        /\ Col("ChurnRiskScore") = Weighted(<<30, 20, 20, 15, 15>>, DashboardComponents)
        /\ BatchCol("ChurnRiskScore") = Weighted(<<35, 25, 20, 10, 10>>, ScriptComponents)
        /\ \A c \in {"FinancialRiskScore", "TenureRisk", "ServiceVulnerability"} :
              BatchCol(c) = Col(c)

\* one record scored by both, the script's score not the dashboard's composite
\* under the script's weights
C19_Witness ==
    /\ SameRecordScored
    /\ ExampleCase
    /\ BatchCol("ChurnRiskScore") = Weighted(<<35, 25, 20, 10, 10>>, ScriptComponents)
    /\ BatchCol("ChurnRiskScore") # Weighted(<<35, 25, 20, 10, 10>>, DashboardComponents)
    /\ Col("ChurnRiskScore") # BatchCol("ChurnRiskScore")

---------------------------------------------------------------------------
(* C20: TenureRisk over the tenures of the form, 0 to 100 months.          *)

\* x < y, over the least common denominator
LtCommon(x, y) == ~LeCommon(y, x)

\* the tenure of the record r
TenureOf(r) == Get(r, "tenure").n

\* a tenure risk in (0, 1], and 1 exactly at tenure 0
InUnitInterval(risk, tenure) ==
    /\ risk.n > 0
    /\ risk.n <= risk.d
    /\ risk = IntCell(1) <=> tenure = 0

\* C20: TenureRisk, in engineer_features and in the feature engineering script,
\* is strictly decreasing in tenure over tenure >= 0, always lies in (0, 1] and
\* is exactly 1 at tenure 0.
C20_TenureRisk ==
    /\ \A t \in 1..(Len(ExpNegTwelfths) - 1) :
          /\ ExpNegTwelfths[t + 1] < ExpNegTwelfths[t]
          /\ ExpNegTwelfths[t + 1] > 0
    /\ ExpNegTwelfths[1] = 1000000
    /\ Engineered =>
          /\ InUnitInterval(Col("TenureRisk"), TenureOf(engineered.arg))
          /\ first_engineered.status = "ok" =>
                /\ TenureOf(first_engineered.arg) < TenureOf(engineered.arg)
                      => LtCommon(Col("TenureRisk"), Get(first_engineered.df, "TenureRisk"))
                /\ TenureOf(first_engineered.arg) = TenureOf(engineered.arg)
                      => Col("TenureRisk") = Get(first_engineered.df, "TenureRisk")
                /\ TenureOf(first_engineered.arg) > TenureOf(engineered.arg)
                      => LtCommon(Get(first_engineered.df, "TenureRisk"), Col("TenureRisk"))
    /\ Batched =>
          /\ InUnitInterval(BatchCol("TenureRisk"), TenureOf(batch_df.arg))
          /\ (Engineered /\ TenureOf(batch_df.arg) < TenureOf(engineered.arg))
                => LtCommon(Col("TenureRisk"), BatchCol("TenureRisk"))

\* a frame at tenure 60 after a frame at tenure 0: the risk fell from 1
C20_Witness ==
    /\ Engineered
    /\ first_engineered.status = "ok"
    /\ TenureOf(first_engineered.arg) = 0
    /\ Get(first_engineered.df, "TenureRisk") = IntCell(1)
    /\ TenureOf(engineered.arg) = 60
    /\ LtCommon(Col("TenureRisk"), Get(first_engineered.df, "TenureRisk"))
    /\ Col("TenureRisk").n > 0

\* the longest tenure of the form
C20_WitnessLongest ==
    /\ Engineered
    /\ TenureOf(engineered.arg) = 100
    /\ Col("TenureRisk").n > 0
    /\ LtCommon(Col("TenureRisk"), Num(1, 1000))

---------------------------------------------------------------------------
(* C21: what twelve more months do to TenureRisk.                          *)

\* lo/100 < y / x < hi/100
RatioBetween(y, x, lo, hi) ==
    /\ LtCommon(RMul(x, Num(lo, 100)), y)
    /\ LtCommon(y, RMul(x, Num(hi, 100)))

\* the frame of the first call and the frame of the last are twelve months of
\* tenure apart
TwelveMonthsLater ==
    /\ Engineered
    /\ first_engineered.status = "ok"
    /\ TenureOf(engineered.arg) = TenureOf(first_engineered.arg) + 12

C21_WitnessTwelve ==
    /\ Engineered
    /\ TenureOf(engineered.arg) = 12
    /\ Col("TenureRisk") = Num(367879, 1000000)

---------------------------------------------------------------------------
(* C22: the two forms predict returns.                                     *)

RiskLabels == {"High", "Medium", "Low"}

\* predict returned (None, message)
ReturnedMessage ==
    /\ result.status = "returned"
    /\ result.proba = NoneCell
    /\ result.label \notin RiskLabels \cup {""}

\* predict returned (p, c), p a probability and c its risk label
ReturnedProbability ==
    /\ result.status = "returned"
    /\ result.proba.k = "num"
    /\ RLe(IntCell(0), result.proba) /\ RLe(result.proba, IntCell(1))
    /\ result.label \in RiskLabels
    /\ result.label = "High" <=> RLe(Num(7, 10), result.proba)
    /\ result.label = "Medium"
          <=> RLe(Num(4, 10), result.proba) /\ RLt(result.proba, Num(7, 10))
    /\ result.label = "Low" <=> RLt(result.proba, Num(4, 10))

\* the last predict failed in feature engineering, in the conversion of the
\* encoded row to floats, or in the classifier
PredictFailed ==
    \/ engineered.status = "KeyError"
    \/ engineered.status = "ok" /\ model_input = NoModelInput
    \/ model_input # NoModelInput /\ ~ClassifierAccepts(model_input.X)

\* C22: predict never raises: for any record and any combination of loaded or
\* missing model, scaler and encoders it returns (p, c), p the classifier's
\* probability and c 'High' exactly when p >= 0.7, 'Medium' exactly when
\* 0.4 <= p < 0.7, 'Low' exactly when p < 0.4, or it returns (None, message);
\* a failure in feature engineering, encoding or classification ends in
\* (None, message).
C22_PredictNeverRaises ==
    result # NoResult =>
        /\ result.status = "returned"
        /\ ReturnedMessage \/ ReturnedProbability
        /\ ~(ReturnedMessage /\ ReturnedProbability)
        /\ predictor.model = None => result = Return(NoneCell, "Model not loaded")
        /\ (predictor.model # None /\ PredictFailed) => ReturnedMessage
        /\ ReturnedProbability =>
              /\ predictor.model # None
              /\ result.proba = PredictProba(predictor.model, model_input.X)

\* a probability of exactly 0.7 is labelled 'High'
C22_Witness ==
    /\ ReturnedProbability
    /\ result.proba = Num(7, 10)
    /\ result.label = "High"

\* a record without Contract under a loaded model: (None, message)
C22_WitnessFailure ==
    /\ predictor.model # None
    /\ engineered.status = "KeyError"
    /\ ReturnedMessage
    /\ result.label = "Error: 'Contract'"

\* the middle and the low label
C22_WitnessMedium == ReturnedProbability /\ result.label = "Medium"

C22_WitnessLow == ReturnedProbability /\ result.label = "Low"


---------------------------------------------------------------------------
(* C23: the model row and the training matrix have the same columns.       *)

\* the record's keys are the data set's columns, in order (the label column
\* Churn may follow them, as in the data set)
InColumnOrder(r) == Columns(r) \in {schema, Append(schema, "Churn")}

\* the columns of X for the data set the record is a row of
TrainingColumns(r) == Columns(X_matrix(BatchFeatures(r, <<>>)))

Placeholders == {PlaceholderName(i) : i \in 0..expected_features}

\* C23: for a record whose keys are in the data set's column order, the row
\* prepare_features_for_model returns has 61 columns, they are the columns of the
\* training matrix X in the same order (the 19 attributes, then the 42 engineered
\* features in creation order), and none of them is a zero placeholder.
C23_TrainingColumnOrder ==
    (features.status = "ok" /\ InColumnOrder(engineered.arg)) =>
        /\ Len(features.df) = expected_features
        /\ Columns(features.df) = TrainingColumns(engineered.arg)
        /\ SubSeq(Columns(features.df), 1, 19) = Tail(schema)
        /\ \A i \in 1..Len(features.df) : features.df[i][1] \notin Placeholders

\* a form record was prepared, and its row ends with the four columns the
\* script creates last
C23_Witness ==
    /\ features.status = "ok"
    /\ engineered.arg = ExampleRecord
    /\ SubSeq(Columns(features.df), 58, 61)
         = <<"ChurnRiskScore", "RiskCategory", "DataSegment", "SegmentName">>
    /\ features.df[28][1] = "TenureSegment"

\* a row of the data set with its Churn label was prepared
C23_WitnessChurn ==
    /\ features.status = "ok"
    /\ Has(engineered.arg, "Churn")
    /\ InColumnOrder(engineered.arg)
    /\ Len(features.df) = expected_features

---------------------------------------------------------------------------
(* C24: the codes of TenureSegment and RiskCategory at training and at      *)
(* inference.                                                              *)

\* the row the dashboard hands its model for the record it engineered
ModelRow == prepare_features_for_model(predictor.label_encoders, engineered.df)

\* the modeling script encoded the row of the record the dashboard engineered
TrainedAndEngineered ==
    /\ training.status = "done"
    /\ engineered.status = "ok"
    /\ engineered.arg = batch_df.arg

\* C24: for the label columns TenureSegment and RiskCategory, the integer in the
\* dashboard's model row for a record equals the code the training-time label
\* encoder gave that record's label in the training matrix.
C24_SameLabelCodes ==
    TrainedAndEngineered =>
        \A col \in {"TenureSegment", "RiskCategory"} :
            Get(ModelRow, col) = Get(training.X, col)

---------------------------------------------------------------------------
(* C25: the model file the modeling script saves and the one the dashboard *)
(* loads.                                                                  *)

\* the predictor a dashboard started now would construct
StartedPredictor == ChurnPredictor(disk)

\* C25: after a completed training run, whichever model had the highest AUC, the
\* file it was saved under is the file load_models looks for, the dashboard
\* holds a model, and the dashboard scales its input exactly when the saved
\* model was trained on scaled features.
C25_SavedModelIsLoaded ==
    training.status = "done" =>
        /\ training.file = model_path
        /\ StartedPredictor.model # None
        /\ (StartedPredictor.scaler # None) <=> (training.best_model \in scaled_models)

---------------------------------------------------------------------------
(* C26: the features of the record alone, in the script and in the         *)
(* dashboard.                                                              *)

\* every categorical attribute of the record has a value of the training data
KnownValues(r) ==
    \A i \in 1..Len(categorical_cols) :
        /\ Has(r, categorical_cols[i])
        /\ IsStr(Get(r, categorical_cols[i]))
        /\ Get(r, categorical_cols[i]).s \in TrainingValues(categorical_cols[i])

RecordFeatures ==
    {"IsMonthToMonth", "ContractStability", "IsElectronicCheck", "PaymentStability",
     "FinancialRiskScore", "IsNewCustomer", "IsVeryNewCustomer", "ProtectionScore",
     "FullyProtected", "NoProtection", "ServiceVulnerability", "ServiceCount",
     "DigitalAdoption", "IsPureStreaming", "ContractValueAlignment", "RiskyNewCustomer",
     "UnstableCustomer", "EarlyServiceOverload", "EstimatedMargin", "ChargesConsistency"}

\* the script and the dashboard have processed the same record of known values
SameKnownRecord ==
    /\ Engineered
    /\ Batched
    /\ engineered.arg = batch_df.arg
    /\ KnownValues(engineered.arg)
    /\ TenureOf(engineered.arg) >= 0

\* C26: for a record with known categorical values and tenure >= 0, each of the
\* twenty engineered features that depend on the record alone has the same value
\* in the feature engineering script and in engineer_features.
C26_SameRecordFeatures ==
    SameKnownRecord => \A c \in RecordFeatures : BatchCol(c) = Col(c)

---------------------------------------------------------------------------
(* C27: the tenure segments of the script and of the dashboard.            *)

\* the ladder with the inclusive upper bounds 3, 12, 24 and 48
LadderSegment(t) ==
    IF t <= 3 THEN 1 ELSE IF t <= 12 THEN 2 ELSE IF t <= 24 THEN 3
    ELSE IF t <= 48 THEN 4 ELSE 5

\* the script and the dashboard have processed the same record, of tenure >= 0
SameTenureSegmented ==
    /\ Engineered
    /\ Batched
    /\ engineered.arg = batch_df.arg
    /\ TenureOf(engineered.arg) >= 0

\* C27: every tenure >= 0 gets exactly one of the five segments, by the ladder
\* with the inclusive upper bounds 3, 12, 24 and 48 months, and the script and
\* the dashboard give the same tenure the same segment.
C27_SameTenureSegment ==
    SameTenureSegmented =>
        /\ Col("TenureSegment") = IntCell(LadderSegment(TenureOf(engineered.arg)) - 1)
        /\ BatchCol("TenureSegment")
             = Str(tenure_labels[LadderSegment(TenureOf(batch_df.arg))])

---------------------------------------------------------------------------
(* C28: the range of the composite score, and the script's risk categories. *)

\* x lies in [0, 1]
InZeroOne(x) == x.k = "num" /\ x.n >= 0 /\ x.n <= x.d

\* x lies in (0, 1]
InScoreRange(x) == x.k = "num" /\ x.n > 0 /\ x.n <= x.d

\* the dashboard has scored a record of known values and tenure >= 0
DashboardScored ==
    /\ Engineered
    /\ KnownValues(engineered.arg)
    /\ TenureOf(engineered.arg) >= 0

\* the script has scored a record of known values and tenure >= 0
ScriptScored ==
    /\ Batched
    /\ KnownValues(batch_df.arg)
    /\ TenureOf(batch_df.arg) >= 0

\* C28: for a record with tenure >= 0 and known categorical values, the composite
\* ChurnRiskScore lies in (0, 1] in the script and in the dashboard, each of its
\* components lies in [0, 1], and the script's bins (0, 0.3], (0.3, 0.5],
\* (0.5, 0.7], (0.7, 1.0] give the record one of the four risk categories.
C28_ScoreInRange ==
    /\ DashboardScored =>
          /\ InScoreRange(Col("ChurnRiskScore"))
          /\ \A c \in {"FinancialRiskScore", "TenureRisk", "ServiceVulnerability",
                       "UnstableCustomer"} : InZeroOne(Col(c))
          /\ InZeroOne(Unprotected(engineered.df))
    /\ ScriptScored =>
          /\ InScoreRange(BatchCol("ChurnRiskScore"))
          /\ \A c \in {"FinancialRiskScore", "TenureRisk", "ServiceVulnerability",
                       "DigitalAdoption", "UnstableCustomer"} : InZeroOne(BatchCol(c))
          /\ \E i \in 1..Len(risk_labels) : BatchCol("RiskCategory") = Str(risk_labels[i])

\* the score reaches its upper end 1 in both paths, and the script files the
\* record under the last bin
C28_Witness ==
    /\ DashboardScored
    /\ ScriptScored
    /\ engineered.arg = batch_df.arg
    /\ Col("ChurnRiskScore") = IntCell(1)
    /\ BatchCol("ChurnRiskScore") = IntCell(1)
    /\ BatchCol("RiskCategory") = Str("Critical Risk")

\* a long-standing customer in the first bin
C28_WitnessLow ==
    /\ ScriptScored
    /\ TenureOf(batch_df.arg) = 100
    /\ LtCommon(BatchCol("ChurnRiskScore"), Num(30, 100))
    /\ BatchCol("RiskCategory") = Str("Low Risk")

---------------------------------------------------------------------------
(* C29: load_models, artifact by artifact.                                 *)

\* the file can be loaded: it exists and joblib.load does not raise on it
Loadable(file) == file \notin {"absent", "corrupt"}

\* C29: constructing a ChurnPredictor never raises; a field whose file is absent
\* or whose load failed keeps its initial value (model None, scaler None,
\* label_encoders empty), and every artifact whose file exists and is loadable
\* is loaded, whatever happened to the other two.
C29_LoadsAreIndependent ==
    /\ predictor.model = IF Loadable(disk.model) THEN disk.model ELSE None
    /\ predictor.scaler = IF Loadable(disk.scaler) THEN disk.scaler ELSE None
    /\ predictor.label_encoders
         = IF Loadable(disk.label_encoders) THEN LoadedEncoders(disk.label_encoders)
           ELSE <<>>

---------------------------------------------------------------------------
(* C30: predict_churn called twice on the same customer_data.              *)

\* the first predict_churn call on the caller's object returned a dict
FirstCallReturned ==
    /\ training.status = "done"
    /\ training.calls # <<>>
    /\ training.calls[1].status = "returned"

\* risk_level is 'High' exactly with the immediate-intervention recommendation
\* and 'Low' exactly with the low-risk one
LevelMatchesAction(call) ==
    /\ call.risk_level = "High"
         <=> call.recommended_action = get_recommendation(IntCell(1))
    /\ call.risk_level = "Low"
         <=> call.recommended_action = get_recommendation(IntCell(0))

\* C30: predict_churn can be called again on the same customer_data: the call
\* leaves the caller's customer_data unchanged, a second call on the same object
\* returns the same churn_probability, risk_level and recommended_action as the
\* first, and risk_level is 'High' exactly with the immediate-intervention
\* recommendation and 'Low' exactly with the low-risk one.
C30_Repeatable ==
    FirstCallReturned =>
        /\ training.customer_data = training.original
        /\ LevelMatchesAction(training.calls[1])
        /\ Len(training.calls) > 1 => training.calls[2] = training.calls[1]

========================================================================
